---- MODULE Spec2Model ----
(***************************************************************************)
(* A model of the extraction engine of tap-netsuite-general-ledger.       *)
(*                                                                         *)
(* Two extraction paths exist in the repository and both are modelled:    *)
(*   "stream" : sync.py _sync_stream_with_memory_optimization driving     *)
(*              client.py fetch_gl_data_streaming (account chunks,        *)
(*              streaming batches, the process_batch callback);           *)
(*   "pages"  : streams/gl_detail.py GLDetailStream._sync_page_by_page    *)
(*              consuming the pages of client.fetch_gl_data_pages.        *)
(* A third, stand-alone loop is dim_table_suiteql.py fetch_all_data       *)
(* ("fetchall").                                                           *)
(*                                                                         *)
(* Timestamps (last_sync, sync_started as a date) are left out of the     *)
(* bookmark: no modelled decision reads them.                              *)
(***************************************************************************)
EXTENDS Integers, Sequences, FiniteSets, TLC

\* ------------------------------------------------------------------ bounds
MaxAccounts == 3
MaxResults == 2
MaxRequests == 4
MaxBatchSize == 2
MaxChunkSize == 2
MaxPageSize == 2
MaxConcurrency == 2
MaxCeiling == 3
MaxRows == 5
FetchAllLimit == 2

VARIABLES
    pipeline,        \* which extraction path this behaviour runs
    pc,              \* position of the single control task
    cfg,             \* configuration: batch_size, account_chunk_size, ...
    bookmark,        \* state['bookmarks'][stream]: a dict, keys may be absent
    emitted,         \* the bookmarks singer.write_state has written, in order
    written,         \* the records singer.write_record has written, in order
    sinkOk,          \* FALSE once stdout raised BrokenPipeError
    requests,        \* remote requests issued so far
    unrecorded,      \* batches dispatched since the last state write was issued
    lastKind,        \* history: the kind of the last remote response
    total_processed, \* sync_state['total_processed'] / total_processed
    chunks,          \* account chunks still to process (each a list of ids)
    chunk_records,   \* _fetch_chunk_data: records accumulated for the chunk
    start_index,     \* _fetch_chunk_data: startIndex of the next request
    records,         \* _process_records_in_streaming_batches: the list it mutates
    bi,              \* ... its loop variable i
    total_records,   \* ... len(records) on entry
    processed_count, \* ... the count it returns
    cbSizes,         \* history: len(batch) of each callback invocation of the call
    callDone,        \* history: the call returned normally
    nextRec,         \* the server's next fresh record id
    prior,           \* the stream's bookmark in the state file the run got
    data,            \* the remote dataset: internal id of each row, in query order
    minId,           \* controller: minimum_id of the current chunk
    nextOff,         \* controller: first offset of the next sub-batch
    waiting,         \* controller: offsets of the sub-batch not yet fetched
    inflight,        \* controller: offsets whose fetch holds a semaphore slot
    results,         \* controller: offset -> page, for the fetches that completed
    toYield,         \* controller: the sorted pages still to hand to the consumer
    chunkEnded,      \* controller: a short or empty page was seen in the chunk
    page_num,        \* process_pages: page counter
    yielded,         \* history: rows handed to the consumer, in order
    pageLog,         \* history: offsets of the pages yielded in the current chunk
    chunkLog,        \* history: minimum_id of every chunk started
    ooo,             \* history: a fetch completed before one of a lower offset
    all_items,       \* fetch_all_data: all_items
    offset,          \* fetch_all_data: offset
    credentials,     \* the client's credentials and script parameters
    oauth_signature, \* generate_oauth_header: the key and the message signed
    posting_period_name,        \* _sync_page_by_page: its argument, or None
    period_todo,                \* sync: the posting periods the loop has left
    completed_periods,          \* sync: completed_periods
    period_stats,               \* sync: record_count of posting_period_stats
    total_records_all_periods,  \* sync: total_records_all_periods
    syncLog,                    \* history: periods _sync_page_by_page ran for
    written_base,               \* history: len(written) when the pass began
    account_list,    \* _fetch_with_account_chunks: accounts
    acct_i,          \* _fetch_with_account_chunks: i of the chunking loop
    state,           \* the state dict a stream's sync works on
    input_state,     \* history: the state dict the sync was given
    emitted_states,  \* history: the state dicts written to stdout
    period_queue,    \* fetch_gl_data_streaming: periods the loop has left
    cur_period,      \* fetch_gl_data_streaming: the period being fetched
    fetch_log,       \* history: requests and batch dispatches, by period
    raw_record,      \* transform_record: record
    transformed      \* transform_record: what it returned

shared == <<pipeline, pc, cfg, bookmark, emitted, written, sinkOk, requests,
            unrecorded, lastKind, total_processed>>
shared_but_pc == <<pipeline, cfg, bookmark, emitted, written, sinkOk, requests,
                   unrecorded, lastKind, total_processed>>
streamVars == <<chunks, chunk_records, start_index, records, bi, total_records,
                processed_count, cbSizes, callDone, nextRec>>
pageVars == <<prior, data, minId, nextOff, waiting, inflight, results, toYield,
              chunkEnded, page_num, yielded, pageLog, chunkLog, ooo>>
faVars == <<all_items, offset>>
signVars == <<credentials, oauth_signature>>
periodVars == <<posting_period_name, period_todo, completed_periods,
                period_stats, total_records_all_periods, syncLog, written_base>>
acctVars == <<account_list, acct_i>>
stateVars == <<state, input_state, emitted_states>>
plistVars == <<period_queue, cur_period, fetch_log>>
xformVars == <<raw_record, transformed>>
unitVars == <<acctVars, stateVars, plistVars, xformVars>>
vars == <<shared, streamVars, pageVars, faVars, signVars, periodVars, unitVars>>

\* ----------------------------------------------------------------- helpers
Min(a, b) == IF a < b THEN a ELSE b

\* Python s[i:e] on a list (0-based, clipped to the list).
PySlice(s, i, e) ==
    [k \in 1..(IF Min(e, Len(s)) > i THEN Min(e, Len(s)) - i ELSE 0) |-> s[i + k]]

\* (n + b - 1) // b
CeilDiv(n, b) == (n + b - 1) \div b

\* dict.get(key) is not None
Has(d, k) == k \in DOMAIN d

\* ------------------------------------------------------------------- sink
\* stdout as the Singer target sees it.  A run of m record writes followed by
\* one state write: w is how many of these m + 1 writes succeed before the
\* pipe breaks (m + 1: none breaks).  A broken pipe stays broken.
SinkOutcomes(m) == IF sinkOk THEN 0..(m + 1) ELSE {0}

\* ------------------------------------------------------- remote responses
\* What _make_api_request returns for one request.
\*   "ok"       HTTP 200 whose body has success and results
\*   "payload"  HTTP 200 whose body is an error payload
\*   "notfound" HTTP 404;  "http" another non-200 status
\*   "timeout"  asyncio.TimeoutError;  "transport" any other exception
FailKinds == {"payload", "notfound", "http", "timeout", "transport"}

\* The records of one answer: fresh ids nextRec, nextRec + 1, ...  A record is
\* its id; the negated id is a record whose internal_id or trans_acct_line_id
\* is null or empty.
FreshRecords(n) ==
    { [k \in 1..n |-> IF k \in bad THEN 0 - (nextRec + k - 1)
                                   ELSE nextRec + k - 1] :
        bad \in SUBSET (1..n) }

FailResponses ==
    { [kind |-> k, results |-> << >>, hasMore |-> FALSE, next |-> 0] :
        k \in FailKinds }

Responses == ({ [kind |-> "ok", results |-> rs, hasMore |-> h, next |-> x] : rs \in UNION { FreshRecords(n) : n \in 0..MaxResults }, h \in BOOLEAN, x \in 0..1 }) \cup FailResponses

\* client.py 452-468: every non-200 status and every exception becomes
\* {'success': False, 'error': ...}; nothing is raised.
make_api_request(resp) ==
    IF resp.kind = "ok"
    THEN [success |-> TRUE, results |-> resp.results,
          hasMoreResults |-> resp.hasMore, nextStartIndex |-> resp.next]
    ELSE [success |-> FALSE, results |-> << >>,
          hasMoreResults |-> FALSE, nextStartIndex |-> 0]

\* ------------------------------------------------------------ configuration
ReplicationMethod == IF cfg.incremental THEN "INCREMENTAL" ELSE "FULL_TABLE"

\* The stream's entry of the state file the run is started with: none, or
\* what an earlier run left.
EmptyDict == << >>

PriorBookmarks ==
    { EmptyDict,
      [record_count |-> 1, replication_method |-> "FULL_TABLE",
       last_internal_id |-> 1] }

\* =========================================================================
\* Path "stream": sync.py + client.py
\* =========================================================================

\* The getAccounts answer: entry k is k when the account has an id and 0 when
\* acc.get('id') is falsy.
RECURSIVE AccountListsOfLen(_)
AccountListsOfLen(n) ==
    IF n = 0 THEN { << >> }
    ELSE { Append(s, x) : s \in AccountListsOfLen(n - 1), x \in {0, n} }

AccountLists == UNION { AccountListsOfLen(n) : n \in 0..MaxAccounts }

\* client.py 238-249: slices of account_chunk_size accounts, the ids of each,
\* a slice with no id dropped.
account_chunks(accounts, size) ==
    LET slice(k) == PySlice(accounts, k * size, (k + 1) * size)
        ids(k) == SelectSeq(slice(k), LAMBDA a : a # 0)
        all == [k \in 1..CeilDiv(Len(accounts), size) |-> ids(k - 1)]
    IN SelectSeq(all, LAMBDA c : c # << >>)

\* sync.py 336-339 and gl_detail.py 381-384: the bookmark a run starts with
\* replaces whatever the state file held for the stream.
StartBookmark ==
    [replication_method |-> ReplicationMethod, sync_started |-> TRUE]

\* sync.py 244-261: the transformed record, None when a required identifier
\* is missing.
None == 0

transform_record(record) == IF record > 0 THEN record ELSE None

\* sync.py 365-372: the records of a batch that reach singer.write_record.
Transformed(batch) ==
    SelectSeq([k \in 1..Len(batch) |-> transform_record(batch[k])],
              LAMBDA t : t # None)

process_batch_without_state(batch, batch_num, w) ==
    LET out == Transformed(batch)
        nw == Min(w, Len(out))
    IN [written |-> written \o SubSeq(out, 1, nw),
        total_processed |-> total_processed + nw,
        bookmark |-> bookmark,
        stateIssued |-> FALSE,
        emitted |-> emitted,
        sinkOk |-> sinkOk /\ w >= Len(out),
        raised |-> FALSE]

process_batch_aborting(batch, batch_num, w) ==
    LET out == Transformed(batch)
        clean == Len(out) = Len(batch)
        nw == IF clean THEN Min(w, Len(out)) ELSE 0
        total == total_processed + nw
        bm == [record_count |-> total,
               replication_method |-> ReplicationMethod,
               current_batch |-> batch_num]
        stateOk == clean /\ w > Len(out)
    IN [written |-> written \o SubSeq(out, 1, nw),
        total_processed |-> total,
        bookmark |-> IF clean THEN bm ELSE bookmark,
        stateIssued |-> TRUE,
        emitted |-> IF stateOk THEN Append(emitted, bm) ELSE emitted,
        sinkOk |-> IF clean THEN stateOk ELSE sinkOk,
        raised |-> ~stateOk]

\* sync.py 354-433, process_batch.  w: the sink's outcome (SinkOutcomes).
\* A BrokenPipeError of write_record is re-raised at 385 inside the try of 366
\* and caught by its "except Exception" at 400: the loop goes on, and every
\* later write fails too.  The state write is always reached; its
\* BrokenPipeError is the only exception that leaves the callback.
process_batch(batch, batch_num, w) ==
    LET out == Transformed(batch)
        nw == Min(w, Len(out))
        total == total_processed + nw
        bm == [record_count |-> total,
               replication_method |-> ReplicationMethod,
               current_batch |-> batch_num]
        stateOk == w > Len(out)
    IN [written |-> written \o SubSeq(out, 1, nw),
        total_processed |-> total,
        bookmark |-> bm,
        stateIssued |-> TRUE,
        emitted |-> IF stateOk THEN Append(emitted, bm) ELSE emitted,
        sinkOk |-> stateOk,
        raised |-> ~stateOk]

\* client.py 512-514: pop every index j with i <= j < batch_end, from the top.
PopProcessed(recs, i, batch_end) ==
    PySlice(recs, 0, i) \o PySlice(recs, batch_end, Len(recs))

\* client.py 268 / 304-307 then sync.py 457: the next account chunk, or the
\* end of the fetch.
NextChunkPc(chs) == IF chs = << >> THEN "final" ELSE "chunk_fetch"

\* sync.py 321-352
A_Start ==
    /\ UNCHANGED <<pageVars, faVars, signVars, periodVars, unitVars>>
    /\ pipeline = "stream" /\ pc = "start"
    /\ \E w \in SinkOutcomes(0) :
        /\ bookmark' = StartBookmark
        /\ total_processed' = 0
        /\ sinkOk' = (w = 1)
        /\ emitted' = IF w = 1 THEN Append(emitted, StartBookmark) ELSE emitted
        /\ pc' = IF w = 1 THEN "accounts" ELSE "returned"
    /\ UNCHANGED <<pipeline, cfg, written, requests, unrecorded, streamVars>>
    /\ UNCHANGED lastKind

\* client.py 178-204 with _get_accounts 206-225 and 238-258.  The call of
\* _fetch_with_account_chunks at 187 is inside the try of 180: when no chunk
\* has an id, its single request (251-258) runs inside that try ("single_try")
\* and whatever it raises is caught at 196, which falls back to the single
\* request of 201.
A_GetAccounts ==
    /\ UNCHANGED <<pageVars, faVars, signVars, periodVars, unitVars>>
    /\ pipeline = "stream" /\ pc = "accounts"
    /\ requests < MaxRequests
    /\ \E kind \in {"ok"} \cup FailKinds, accounts \in AccountLists :
        LET ok == kind = "ok"
            chs == account_chunks(accounts, cfg.account_chunk_size)
            chunking == ok /\ Len(accounts) > cfg.account_chunk_size
        IN /\ (~ok => accounts = << >>)
           /\ chunks' = IF chunking THEN chs ELSE << >>
           /\ pc' = IF ~chunking THEN "single"
                    ELSE IF chs = << >> THEN "single_try" ELSE "chunk_fetch"
           /\ lastKind' = kind
    /\ requests' = requests + 1
    /\ chunk_records' = << >>
    /\ start_index' = 0
    /\ UNCHANGED <<pipeline, cfg, bookmark, emitted, written, sinkOk, unrecorded,
                   total_processed, records, bi, total_records, processed_count,
                   cbSizes, callDone, nextRec>>

\* client.py 452-457: an HTTP 404 answer, and a 200 answer with no results and
\* nothing more to fetch.
NotFoundResponse ==
    [kind |-> "notfound", results |-> << >>, hasMore |-> FALSE, next |-> 0]

\* client.py 336-370, one turn of the while loop of _fetch_chunk_data: the
\* records so far, whether the loop goes on, and the next startIndex.  Every
\* exception is caught at 368: nothing is raised.
fetch_chunk_step(recs, resp) ==
    LET result == make_api_request(resp)
    IN [chunk_records |-> IF result.success THEN recs \o result.results
                          ELSE recs,
        more |-> result.success /\ result.hasMoreResults
                 /\ result.nextStartIndex # 0,
        start_index |-> result.nextStartIndex,
        raised |-> FALSE]

\* client.py 336-380, one turn of the while loop, and on its exit 279-297.
A_FetchPage ==
    /\ UNCHANGED <<pageVars, faVars, signVars, periodVars, unitVars>>
    /\ pipeline = "stream" /\ pc = "chunk_fetch"
    /\ requests < MaxRequests
    /\ \E resp \in Responses :
        LET step == fetch_chunk_step(chunk_records, resp)
            got == step.chunk_records
        IN /\ nextRec' = nextRec + Len(resp.results)
           /\ lastKind' = resp.kind
           /\ IF step.more
              THEN /\ chunk_records' = got
                   /\ start_index' = step.start_index
                   /\ UNCHANGED <<pc, chunks, records, bi, total_records,
                                  processed_count, cbSizes, callDone>>
              ELSE /\ chunk_records' = << >>
                   /\ start_index' = 0
                   /\ IF got # << >>
                      THEN /\ pc' = "chunk_batches"
                           /\ records' = got
                           /\ total_records' = Len(got)
                           /\ bi' = 0
                           /\ processed_count' = 0
                           /\ cbSizes' = << >>
                           /\ callDone' = FALSE
                           /\ UNCHANGED chunks
                      ELSE /\ chunks' = Tail(chunks)
                           /\ pc' = NextChunkPc(Tail(chunks))
                           /\ UNCHANGED <<records, bi, total_records,
                                          processed_count, cbSizes, callDone>>
    /\ requests' = requests + 1
    /\ UNCHANGED <<pipeline, cfg, bookmark, emitted, written, sinkOk, unrecorded,
                   total_processed>>

\* client.py 488-489: the batch of the current turn of the for loop.
CurrentBatch ==
    PySlice(records, bi, Min(bi + cfg.batch_size, total_records))

\* client.py 487-526, one turn of the for loop with its callback, and on the
\* loop's exit 528-537.
A_Batch ==
    /\ UNCHANGED <<pageVars, faVars, signVars, periodVars, unitVars>>
    /\ pipeline = "stream"
    /\ pc \in {"chunk_batches", "single_batches", "single_try_batches"}
    /\ bi < total_records
    /\ LET batch_end == Min(bi + cfg.batch_size, total_records)
           batch == CurrentBatch
           batch_num == (bi \div cfg.batch_size) + 1
           last == bi + cfg.batch_size >= total_records
       IN \E w \in SinkOutcomes(Len(batch)) :
           LET cb == process_batch(batch, batch_num, w)
               over == cb.raised \/ last
           IN /\ written' = cb.written
              /\ total_processed' = cb.total_processed
              /\ bookmark' = cb.bookmark
              /\ emitted' = cb.emitted
              /\ sinkOk' = cb.sinkOk
              /\ unrecorded' = IF cb.stateIssued THEN 0 ELSE unrecorded + 1
              /\ cbSizes' = Append(cbSizes, Len(batch))
              /\ processed_count' = IF cb.raised THEN processed_count
                                    ELSE processed_count + Len(batch)
              /\ records' = IF cb.raised THEN records
                            ELSE IF last THEN << >>
                            ELSE PopProcessed(records, bi, batch_end)
              /\ bi' = IF cb.raised THEN bi ELSE bi + cfg.batch_size
              /\ callDone' = (~cb.raised /\ last)
              /\ IF pc = "chunk_batches"
                 THEN /\ chunks' = IF over THEN Tail(chunks) ELSE chunks
                      /\ pc' = IF over THEN NextChunkPc(Tail(chunks)) ELSE pc
                 ELSE /\ UNCHANGED chunks
                      /\ pc' = IF cb.raised
                               THEN (IF pc = "single_try_batches" THEN "single"
                                     ELSE "returned")
                               ELSE IF last THEN "final" ELSE pc
    /\ UNCHANGED <<pipeline, cfg, requests, total_records, chunk_records,
                   start_index, nextRec>>
    /\ UNCHANGED lastKind

\* client.py 382-425 and, when it raises, client.py 196-203 inside the try of
\* 180 and sync.py 451-453 outside it.
A_Single ==
    /\ UNCHANGED <<pageVars, faVars, signVars, periodVars, unitVars>>
    /\ pipeline = "stream" /\ pc \in {"single", "single_try"}
    /\ requests < MaxRequests
    /\ \E resp \in Responses :
        LET result == make_api_request(resp)
        IN /\ nextRec' = nextRec + Len(result.results)
           /\ lastKind' = resp.kind
           /\ IF result.success
              THEN /\ records' = IF result.results = << >> THEN << >>
                                 ELSE result.results
                   /\ total_records' = Len(result.results)
                   /\ bi' = 0
                   /\ processed_count' = 0
                   /\ cbSizes' = << >>
                   /\ callDone' = (result.results = << >>)
                   /\ pc' = IF result.results = << >> THEN "final"
                            ELSE IF pc = "single_try" THEN "single_try_batches"
                            ELSE "single_batches"
              ELSE /\ pc' = IF pc = "single_try" THEN "single" ELSE "raised"
                   /\ UNCHANGED <<records, total_records, bi, processed_count,
                                  cbSizes, callDone>>
    /\ requests' = requests + 1
    /\ UNCHANGED <<pipeline, cfg, bookmark, emitted, written, sinkOk, unrecorded,
                   total_processed, chunks, chunk_records, start_index>>

\* sync.py 457-480
FinalBookmark ==
    [record_count |-> total_processed,
     replication_method |-> ReplicationMethod,
     sync_completed |-> TRUE]

A_Final ==
    /\ UNCHANGED <<pageVars, faVars, signVars, periodVars, unitVars>>
    /\ pipeline = "stream" /\ pc = "final"
    /\ \E w \in SinkOutcomes(0) :
        /\ bookmark' = FinalBookmark
        /\ sinkOk' = (w = 1)
        /\ emitted' = IF w = 1 THEN Append(emitted, FinalBookmark) ELSE emitted
    /\ pc' = "done"
    /\ UNCHANGED <<pipeline, cfg, written, requests, unrecorded, total_processed,
                   streamVars>>
    /\ UNCHANGED lastKind

\* The variables of a path that does not run.
StreamIdle ==
    /\ chunks = << >>
    /\ chunk_records = << >>
    /\ start_index = 0
    /\ records = << >>
    /\ bi = 0
    /\ total_records = 0
    /\ processed_count = 0
    /\ cbSizes = << >>
    /\ callDone = FALSE
    /\ nextRec = 1

PagesIdle ==
    /\ data = << >>
    /\ minId = 0
    /\ nextOff = 0
    /\ waiting = << >>
    /\ inflight = {}
    /\ results = {}
    /\ toYield = << >>
    /\ chunkEnded = FALSE
    /\ page_num = 0
    /\ yielded = << >>
    /\ pageLog = << >>
    /\ chunkLog = << >>
    /\ ooo = FALSE

FetchAllIdle ==
    /\ all_items = << >>
    /\ offset = 0

SignIdle ==
    /\ credentials = << >>
    /\ oauth_signature = << >>

UnitsIdle ==
    /\ account_list = << >>
    /\ acct_i = 0
    /\ state = << >>
    /\ input_state = << >>
    /\ emitted_states = << >>
    /\ period_queue = << >>
    /\ cur_period = << >>
    /\ fetch_log = << >>
    /\ raw_record = << >>
    /\ transformed = << >>

PeriodsIdle ==
    /\ posting_period_name = 0
    /\ period_todo = << >>
    /\ completed_periods = {}
    /\ period_stats = << >>
    /\ total_records_all_periods = 0
    /\ syncLog = << >>
    /\ written_base = 0

StreamInit ==
    /\ pipeline = "stream"
    /\ pc = "start"
    /\ cfg \in ([ batch_size : 1..MaxBatchSize, account_chunk_size : 1..MaxChunkSize, incremental : BOOLEAN ])
    /\ bookmark \in PriorBookmarks
    /\ emitted = << >>
    /\ written = << >>
    /\ sinkOk = TRUE
    /\ requests = 0
    /\ unrecorded = 0
    /\ lastKind = "none"
    /\ total_processed = 0
    /\ chunks = << >>
    /\ chunk_records = << >>
    /\ start_index = 0
    /\ records = << >>
    /\ bi = 0
    /\ total_records = 0
    /\ processed_count = 0
    /\ cbSizes = << >>
    /\ callDone = FALSE
    /\ nextRec = 1
    /\ prior = bookmark
    /\ PagesIdle
    /\ FetchAllIdle
    /\ SignIdle
    /\ PeriodsIdle
    /\ UnitsIdle

StreamNext ==
    \/ A_Start
    \/ A_GetAccounts
    \/ A_FetchPage
    \/ A_Batch
    \/ A_Single
    \/ A_Final

SpecStream == StreamInit /\ [][StreamNext]_vars

\* =========================================================================
\* Path "pages": streams/gl_detail.py over client.fetch_gl_data_pages
\* =========================================================================

\* The rows the remote tables hold, as the internal id (t.ID) of each row in
\* the order of the query's ORDER BY.  One transaction has several accounting
\* lines (key_properties is the pair internal_id, trans_acct_line_id), so an
\* id may repeat; row k is identified by its position k.
RECURSIVE DatasetsOfLen(_)
DatasetsOfLen(n) ==
    IF n = 0 THEN { << >> }
    ELSE IF n = 1 THEN { <<1>> }
    ELSE { Append(s, s[Len(s)] + d) : s \in DatasetsOfLen(n - 1), d \in 0..1 }

Datasets == UNION { DatasetsOfLen(n) : n \in 0..MaxRows }

Reverse(s) == [k \in 1..Len(s) |-> s[Len(s) + 1 - k]]

Positions(s) == [k \in 1..Len(s) |-> k]

QueryRowsInclusive(min_internal_id) ==
    SelectSeq(Positions(data),
              LAMBDA k : min_internal_id > 0 => data[k] >= min_internal_id)

QueryRowsUnordered(min_internal_id) ==
    Reverse(SelectSeq(Positions(data),
                      LAMBDA k : min_internal_id > 0 => data[k] > min_internal_id))

\* gl_detail.py 125-127 and 144-145: the rows the built query selects, " AND
\* t.ID > min" only when min > 0, in ORDER BY order.
QueryRows(min_internal_id) ==
    SelectSeq(Positions(data),
              LAMBDA k : min_internal_id > 0 => data[k] > min_internal_id)

\* The remote answer to the query at an offset with limit page_size.
ServerPage(min_internal_id, off) ==
    PySlice(QueryRows(min_internal_id), off, off + cfg.page_size)

\* Page Fetcher: the item list on success, the empty list on "not found".
fetch_page(resp) == IF resp.kind = "ok" THEN resp.items ELSE << >>

\* What the remote side may answer to a page request: the page, "not found"
\* where there is nothing to return, or a failure.
PageResponses(min_internal_id, off) ==
    { [kind |-> "ok", items |-> ServerPage(min_internal_id, off)] }
    \cup (IF ServerPage(min_internal_id, off) = << >>
          THEN { [kind |-> "notfound", items |-> << >>] } ELSE {})
    \cup { [kind |-> "error", items |-> << >>] }

\* Sub-batches hold concurrency x WindowFactor offsets.
WindowFactor == 3

\* The offsets from, from + page_size, ... of one sub-batch, none above the
\* offset ceiling.
WindowOffsets(from) ==
    LET left == IF from > cfg.offset_ceiling THEN 0
                ELSE ((cfg.offset_ceiling - from) \div cfg.page_size) + 1
        cnt == Min(cfg.concurrency * WindowFactor, left)
    IN [k \in 1..cnt |-> from + (k - 1) * cfg.page_size]

SemaphoreAlwaysFree == TRUE

\* The counting semaphore: a slot is free.
SemaphoreFree == Cardinality(inflight) < cfg.concurrency

RECURSIVE SortByOffset(_)
SortByOffset(rs) ==
    IF rs = {} THEN << >>
    ELSE LET lo == CHOOSE r \in rs : \A q \in rs : r.off <= q.off
         IN <<lo>> \o SortByOffset(rs \ {lo})

RECURSIVE ByCompletion(_)
ByCompletion(rs) ==
    IF rs = {} THEN << >>
    ELSE LET lo == CHOOSE r \in rs : \A q \in rs : r.seq <= q.seq
         IN <<lo>> \o ByCompletion(rs \ {lo})

\* The results of a sub-batch in the order they are yielded.
OrderForYield(rs) == SortByOffset(rs)

YieldAllPages(ps) == ps

\* The pages of a sorted sub-batch up to the first short or empty page; an
\* empty page is not yielded.
RECURSIVE UpToShort(_)
UpToShort(ps) ==
    IF ps = << >> THEN << >>
    ELSE IF Len(Head(ps).page) < cfg.page_size
         THEN (IF Head(ps).page = << >> THEN << >> ELSE <<Head(ps)>>)
         ELSE <<Head(ps)>> \o UpToShort(Tail(ps))

HasShort(rs) == \E r \in rs : Len(r.page) < cfg.page_size

\* The minimum_id of the chunk that follows a chunk ended by the ceiling.
ReanchorId == data[yielded[Len(yielded)]]

\* gl_detail.py 437-465: the sizes of the batches write_records_batch gets for
\* a page of n records, full batches and then the rest at the page boundary.
page_batch_sizes(n, b) ==
    [k \in 1..CeilDiv(n, b) |-> IF k * b <= n THEN b ELSE n - (k - 1) * b]

\* gl_detail.py 481-492: the bookmark written after a page.
PageBookmark(total) ==
    IF posting_period_name = None
    THEN [record_count |-> total,
          replication_method |-> ReplicationMethod,
          current_page |-> page_num + 1]
    ELSE [record_count |-> total,
          replication_method |-> ReplicationMethod,
          current_page |-> page_num + 1,
          current_posting_period |-> posting_period_name]

\* process_page with a checkpoint that leaves out the page just written.
process_page_stale_count(page, w) ==
    LET n == Len(page)
        b == cfg.batch_size
        broke == w < n
        total == IF broke THEN total_processed + b * (w \div b)
                 ELSE total_processed + n
        bm == PageBookmark(total_processed)
        stateOk == w = n + 1
    IN [written |-> written \o SubSeq(page, 1, Min(w, n)),
        total_processed |-> total,
        bookmark |-> IF broke THEN bookmark ELSE bm,
        stateIssued |-> ~broke,
        dispatches |-> IF broke THEN (w \div b) + 1
                       ELSE Len(page_batch_sizes(n, b)),
        emitted |-> IF stateOk THEN Append(emitted, bm) ELSE emitted,
        sinkOk |-> stateOk,
        raised |-> broke]

\* gl_detail.py 418-499, the body of "async for page": w is the sink's
\* outcome over the page's record writes and its state write.
process_page(page, w) ==
    LET n == Len(page)
        b == cfg.batch_size
        broke == w < n
        total == IF broke THEN total_processed + b * (w \div b)
                 ELSE total_processed + n
        bm == PageBookmark(total)
        stateOk == w = n + 1
    IN [written |-> written \o SubSeq(page, 1, Min(w, n)),
        total_processed |-> total,
        bookmark |-> IF broke THEN bookmark ELSE bm,
        stateIssued |-> ~broke,
        dispatches |-> IF broke THEN (w \div b) + 1
                       ELSE Len(page_batch_sizes(n, b)),
        emitted |-> IF stateOk THEN Append(emitted, bm) ELSE emitted,
        sinkOk |-> stateOk,
        raised |-> broke]

\* gl_detail.py 371-394; base.py 96-103 swallows the BrokenPipeError of the
\* state write.  The controller is handed the query builder only.
P_Start ==
    /\ UNCHANGED <<streamVars, faVars, signVars, periodVars, unitVars>>
    /\ pipeline = "pages" /\ pc = "start"
    /\ \E w \in SinkOutcomes(0) :
        /\ bookmark' = StartBookmark
        /\ sinkOk' = (w = 1)
        /\ emitted' = IF w = 1 THEN Append(emitted, StartBookmark) ELSE emitted
    /\ total_processed' = 0
    /\ page_num' = 0
    /\ minId' = 0
    /\ nextOff' = 0
    /\ chunkLog' = <<0>>
    /\ pc' = "window"
    /\ UNCHANGED <<pipeline, cfg, written, requests, unrecorded, prior, data,
                   waiting, inflight, results, toYield, chunkEnded, yielded,
                   pageLog, ooo>>
    /\ UNCHANGED lastKind

\* Fan-out window: the next sub-batch of offsets.
C_OpenWindow ==
    /\ UNCHANGED <<streamVars, faVars, signVars, periodVars, unitVars>>
    /\ pipeline = "pages" /\ pc = "window"
    /\ waiting' = WindowOffsets(nextOff)
    /\ nextOff' = nextOff + cfg.concurrency * WindowFactor * cfg.page_size
    /\ results' = {}
    /\ pc' = "fetching"
    /\ UNCHANGED <<shared_but_pc, prior, data, minId, inflight, toYield,
                   chunkEnded, page_num, yielded, pageLog, chunkLog, ooo>>

\* A fetch takes a slot of the semaphore and sends its request.
C_Launch ==
    /\ UNCHANGED <<streamVars, faVars, signVars, periodVars, unitVars>>
    /\ pipeline = "pages" /\ pc = "fetching"
    /\ waiting # << >>
    /\ SemaphoreFree
    /\ inflight' = inflight \cup {Head(waiting)}
    /\ waiting' = Tail(waiting)
    /\ requests' = requests + 1
    /\ UNCHANGED <<pipeline, pc, cfg, bookmark, emitted, written, sinkOk,
                   unrecorded, total_processed, prior, data, minId, nextOff,
                   results, toYield, chunkEnded, page_num, yielded, pageLog,
                   chunkLog, ooo>>
    /\ UNCHANGED lastKind

\* A fetch in flight gets its response and frees its slot; a failure ends the
\* controller, and gl_detail.py 507-509 re-raises it.
C_Complete ==
    /\ UNCHANGED <<streamVars, faVars, signVars, periodVars, unitVars>>
    /\ pipeline = "pages" /\ pc = "fetching"
    /\ \E o \in inflight : \E resp \in PageResponses(minId, o) :
        /\ inflight' = inflight \ {o}
        /\ lastKind' = resp.kind
        /\ IF resp.kind = "error"
           THEN /\ pc' = "raised"
                /\ UNCHANGED <<results, ooo>>
           ELSE /\ results' = results \cup
                       { [off |-> o, page |-> fetch_page(resp),
                          seq |-> Cardinality(results)] }
                /\ ooo' = (ooo \/ \E q \in inflight : q < o)
                /\ UNCHANGED pc
    /\ UNCHANGED <<pipeline, cfg, bookmark, emitted, written, sinkOk, requests,
                   unrecorded, total_processed, prior, data, minId, nextOff,
                   waiting, toYield, chunkEnded, page_num, yielded, pageLog,
                   chunkLog>>

\* The whole sub-batch has answered: its pages are put in order.
C_Gather ==
    /\ UNCHANGED <<streamVars, faVars, signVars, periodVars, unitVars>>
    /\ pipeline = "pages" /\ pc = "fetching"
    /\ waiting = << >> /\ inflight = {}
    /\ toYield' = UpToShort(OrderForYield(results))
    /\ chunkEnded' = HasShort(results)
    /\ results' = {}
    /\ pc' = "yielding"
    /\ UNCHANGED <<shared_but_pc, prior, data, minId, nextOff, waiting, inflight,
                   page_num, yielded, pageLog, chunkLog, ooo>>

\* The controller yields its next page and the body of the consumer's loop
\* runs on it (gl_detail.py 415-499); a BrokenPipeError leaves through
\* 504-506, which returns the state.
P_Page ==
    /\ UNCHANGED <<streamVars, faVars, signVars, periodVars, unitVars>>
    /\ pipeline = "pages" /\ pc = "yielding"
    /\ toYield # << >>
    /\ LET y == Head(toYield)
       IN \E w \in SinkOutcomes(Len(y.page)) :
           LET r == process_page(y.page, w)
           IN /\ written' = r.written
              /\ total_processed' = r.total_processed
              /\ bookmark' = r.bookmark
              /\ emitted' = r.emitted
              /\ sinkOk' = r.sinkOk
              /\ unrecorded' = IF r.stateIssued THEN 0
                               ELSE unrecorded + r.dispatches
              /\ pc' = IF r.raised THEN "final_bp" ELSE pc
              /\ yielded' = yielded \o y.page
              /\ pageLog' = Append(pageLog, y.off)
    /\ page_num' = page_num + 1
    /\ toYield' = Tail(toYield)
    /\ UNCHANGED <<pipeline, cfg, requests, prior, data, minId, nextOff, waiting,
                   inflight, results, chunkEnded, chunkLog, ooo>>
    /\ UNCHANGED lastKind

\* The sub-batch is used up: the fetch ends after a short or empty page, a new
\* chunk starts at the last yielded id when the ceiling is reached, and the
\* next sub-batch follows otherwise.  gl_detail.py 513-519 on the end.
C_Advance ==
    /\ UNCHANGED <<streamVars, faVars, signVars, periodVars, unitVars>>
    /\ pipeline = "pages" /\ pc = "yielding"
    /\ toYield = << >>
    /\ IF chunkEnded
       THEN /\ pc' = "final"
            /\ UNCHANGED <<minId, nextOff, pageLog, chunkLog>>
       ELSE IF nextOff > cfg.offset_ceiling
       THEN /\ pc' = "window"
            /\ minId' = ReanchorId
            /\ nextOff' = 0
            /\ pageLog' = << >>
            /\ chunkLog' = Append(chunkLog, ReanchorId)
       ELSE /\ pc' = "window"
            /\ UNCHANGED <<minId, nextOff, pageLog, chunkLog>>
    /\ chunkEnded' = FALSE
    /\ UNCHANGED <<shared_but_pc, prior, data, waiting, inflight, results,
                   toYield, page_num, yielded, ooo>>

\* gl_detail.py 238-252.  After 504-506 total_records is the state dict, not a
\* count: the key record_count_is_state stands for that value.
PagesFinalBookmark ==
    IF pc = "final_bp"
    THEN [record_count_is_state |-> TRUE,
          replication_method |-> ReplicationMethod,
          sync_completed |-> TRUE]
    ELSE [record_count |-> total_processed,
          replication_method |-> ReplicationMethod,
          sync_completed |-> TRUE]

\* gl_detail.py 238-257.  After a broken pipe the bookmark holds the state
\* that holds it: json.dumps in singer.write_state raises ValueError on the
\* circular reference, which base.py 96-103 does not catch, so sync raises
\* with the bookmark set in the caller's state and nothing written.
P_Final ==
    /\ UNCHANGED <<streamVars, faVars, signVars, periodVars, unitVars>>
    /\ pipeline = "pages" /\ pc \in {"final", "final_bp"}
    /\ bookmark' = PagesFinalBookmark
    /\ IF pc = "final"
       THEN /\ \E w \in SinkOutcomes(0) :
                /\ sinkOk' = (w = 1)
                /\ emitted' = IF w = 1 THEN Append(emitted, PagesFinalBookmark)
                              ELSE emitted
            /\ unrecorded' = 0
            /\ pc' = "done"
       ELSE /\ pc' = "raised"
            /\ UNCHANGED <<sinkOk, emitted, unrecorded>>
    /\ UNCHANGED <<pipeline, cfg, written, requests, total_processed, pageVars>>
    /\ UNCHANGED lastKind

PagesInit ==
    /\ pipeline = "pages"
    /\ pc = "start"
    /\ cfg \in ([ page_size : 1..MaxPageSize, concurrency : 1..MaxConcurrency, offset_ceiling : 0..MaxCeiling, batch_size : 1..MaxBatchSize, incremental : {FALSE} ])
    /\ bookmark \in PriorBookmarks
    /\ prior = bookmark
    /\ data \in Datasets
    /\ emitted = << >>
    /\ written = << >>
    /\ sinkOk = TRUE
    /\ requests = 0
    /\ unrecorded = 0
    /\ lastKind = "none"
    /\ total_processed = 0
    /\ minId = 0
    /\ nextOff = 0
    /\ waiting = << >>
    /\ inflight = {}
    /\ results = {}
    /\ toYield = << >>
    /\ chunkEnded = FALSE
    /\ page_num = 0
    /\ yielded = << >>
    /\ pageLog = << >>
    /\ chunkLog = << >>
    /\ ooo = FALSE
    /\ StreamIdle
    /\ FetchAllIdle
    /\ SignIdle
    /\ PeriodsIdle
    /\ UnitsIdle

PagesNext ==
    \/ P_Start
    \/ C_OpenWindow
    \/ C_Launch
    \/ C_Complete
    \/ C_Gather
    \/ P_Page
    \/ C_Advance
    \/ P_Final

SpecPages == PagesInit /\ [][PagesNext]_vars

\* The event loop resumes every coroutine that can run, and every request is
\* answered or fails: a step that can be taken is taken.
SpecPagesFair == SpecPages /\ WF_vars(PagesNext)

\* =========================================================================
\* dim_table_suiteql.py fetch_all_data
\* =========================================================================

\* What the remote side may answer at an offset: "not found" above the offset
\* ceiling, the page of the dataset at or below it, or another failure.
FetchAllResponses(off) ==
    (IF off > cfg.offset_ceiling
     THEN { [kind |-> "notfound", items |-> << >>] }
     ELSE { [kind |-> "ok",
             items |-> PySlice(Positions(data), off, off + FetchAllLimit)] })
    \cup { [kind |-> "http", items |-> << >>] }

\* dim_table_suiteql.py 58-63 and 77-79: a 404 status, and a 200 status whose
\* body has no items.
NotFoundItems == [kind |-> "notfound", items |-> << >>]

fetch_all_step_raising(items, off, resp) ==
    IF resp.kind = "ok"
    THEN IF resp.items = << >>
         THEN [all_items |-> items, offset |-> off, done |-> TRUE, raised |-> FALSE]
         ELSE IF Len(resp.items) < FetchAllLimit
         THEN [all_items |-> items \o resp.items, offset |-> off,
               done |-> TRUE, raised |-> FALSE]
         ELSE [all_items |-> items \o resp.items, offset |-> off + FetchAllLimit,
               done |-> FALSE, raised |-> FALSE]
    ELSE [all_items |-> items, offset |-> off, done |-> TRUE, raised |-> TRUE]

\* fetch_all_step that ends on a short page without keeping its rows.
fetch_all_step_dropping_short(items, off, resp) ==
    IF resp.kind = "ok"
    THEN IF Len(resp.items) < FetchAllLimit
         THEN [all_items |-> items, offset |-> off, done |-> TRUE, raised |-> FALSE]
         ELSE [all_items |-> items \o resp.items, offset |-> off + FetchAllLimit,
               done |-> FALSE, raised |-> FALSE]
    ELSE [all_items |-> items, offset |-> off, done |-> TRUE, raised |-> FALSE]

\* dim_table_suiteql.py 54-79, one turn of the while loop.
fetch_all_step(items, off, resp) ==
    IF resp.kind = "ok"
    THEN IF resp.items = << >>
         THEN [all_items |-> items, offset |-> off, done |-> TRUE, raised |-> FALSE]
         ELSE IF Len(resp.items) < FetchAllLimit
         THEN [all_items |-> items \o resp.items, offset |-> off,
               done |-> TRUE, raised |-> FALSE]
         ELSE [all_items |-> items \o resp.items, offset |-> off + FetchAllLimit,
               done |-> FALSE, raised |-> FALSE]
    ELSE [all_items |-> items, offset |-> off, done |-> TRUE, raised |-> FALSE]

F_Request ==
    /\ UNCHANGED <<streamVars, (<<prior, minId, nextOff, waiting, inflight, results, toYield, chunkEnded, page_num, yielded, pageLog, chunkLog, ooo>>), signVars, periodVars, unitVars>>
    /\ pipeline = "fetchall" /\ pc = "loop"
    /\ \E resp \in FetchAllResponses(offset) :
        LET step == fetch_all_step(all_items, offset, resp)
        IN /\ all_items' = step.all_items
           /\ offset' = step.offset
           /\ lastKind' = resp.kind
           /\ pc' = IF step.raised THEN "raised"
                    ELSE IF step.done THEN "done" ELSE "loop"
    /\ requests' = requests + 1
    /\ UNCHANGED <<pipeline, cfg, bookmark, emitted, written, sinkOk, unrecorded,
                   total_processed, data>>

FetchAllInit ==
    /\ pipeline = "fetchall"
    /\ pc = "loop"
    /\ cfg \in [offset_ceiling : 0..MaxCeiling, incremental : {FALSE}]
    /\ bookmark = EmptyDict
    /\ prior = EmptyDict
    /\ data \in Datasets
    /\ emitted = << >>
    /\ written = << >>
    /\ sinkOk = TRUE
    /\ requests = 0
    /\ unrecorded = 0
    /\ lastKind = "none"
    /\ total_processed = 0
    /\ minId = 0
    /\ nextOff = 0
    /\ waiting = << >>
    /\ inflight = {}
    /\ results = {}
    /\ toYield = << >>
    /\ chunkEnded = FALSE
    /\ page_num = 0
    /\ yielded = << >>
    /\ pageLog = << >>
    /\ chunkLog = << >>
    /\ ooo = FALSE
    /\ StreamIdle
    /\ FetchAllIdle
    /\ SignIdle
    /\ PeriodsIdle
    /\ UnitsIdle

SpecFetchAll == FetchAllInit /\ [][F_Request]_vars

\* =========================================================================
\* Path "periods": GLDetailStream.sync with posting_periods configured.  The
\* pages the controller yields for a period are taken as given; a row is the
\* name of its period.
\* =========================================================================
MaxPeriods == 3
MaxPeriodPages == 2

Periods == 1..MaxPeriods

RECURSIVE PeriodListsOfLen(_)
PeriodListsOfLen(n) ==
    IF n = 0 THEN { << >> }
    ELSE { Append(l, q) : l \in PeriodListsOfLen(n - 1), q \in Periods }

\* sorted(list(completed_periods))
RECURSIVE sorted_list(_)
sorted_list(S) ==
    IF S = {} THEN << >>
    ELSE LET least == CHOOSE x \in S : \A y \in S : x <= y
         IN <<least>> \o sorted_list(S \ {least})

\* set(stream_state.get('completed_posting_periods', []))
set_of(l) == { l[i] : i \in 1..Len(l) }

\* gl_detail.py 266-269
PriorCompleted ==
    IF Has(prior, "completed_posting_periods")
    THEN set_of(prior.completed_posting_periods) ELSE {}

\* period_stats.get(period_name, {}).get('record_count', 0)
stats_record_count(period_name) ==
    IF period_name \in DOMAIN period_stats THEN period_stats[period_name]
    ELSE 0

NeverSkip(period_name) == FALSE

\* gl_detail.py 277: if period_name in completed_periods
ShouldSkip(period_name) == period_name \in completed_periods

\* gl_detail.py 380-394 with a posting period
PeriodStartBookmark(period_name) ==
    [replication_method |-> ReplicationMethod, sync_started |-> TRUE,
     current_posting_period |-> period_name]

\* gl_detail.py 276-287: a completed period is skipped and its earlier count
\* added to the total.
PS_Skip ==
    /\ UNCHANGED <<streamVars, pageVars, faVars, signVars, unitVars>>
    /\ pipeline = "periods" /\ pc = "period_loop"
    /\ period_todo # << >>
    /\ ShouldSkip(Head(period_todo))
    /\ total_records_all_periods' =
           total_records_all_periods + stats_record_count(Head(period_todo))
    /\ period_todo' = Tail(period_todo)
    /\ UNCHANGED <<shared, posting_period_name, completed_periods, period_stats,
                   syncLog, written_base>>

\* gl_detail.py 289-297 and 371-394: _sync_page_by_page is entered for the
\* period and writes its start bookmark.
PS_Begin ==
    /\ UNCHANGED <<streamVars, faVars, signVars, unitVars>>
    /\ pipeline = "periods" /\ pc = "period_loop"
    /\ period_todo # << >>
    /\ ~ShouldSkip(Head(period_todo))
    /\ LET bm == PeriodStartBookmark(Head(period_todo))
       IN \E w \in SinkOutcomes(0) :
           /\ bookmark' = bm
           /\ sinkOk' = (w = 1)
           /\ emitted' = IF w = 1 THEN Append(emitted, bm) ELSE emitted
    /\ posting_period_name' = Head(period_todo)
    /\ total_processed' = 0
    /\ page_num' = 0
    /\ syncLog' = Append(syncLog, Head(period_todo))
    /\ written_base' = Len(written)
    /\ pc' = "period_pages"
    /\ UNCHANGED <<pipeline, cfg, written, requests, unrecorded, lastKind,
                   period_todo, completed_periods, period_stats,
                   total_records_all_periods>>
    /\ UNCHANGED <<prior, data, minId, nextOff, waiting, inflight, results,
                   toYield, chunkEnded, yielded, pageLog, chunkLog, ooo>>

\* gl_detail.py 416-499: one page of the period.
PS_Page ==
    /\ UNCHANGED <<streamVars, faVars, signVars, unitVars>>
    /\ pipeline = "periods" /\ pc = "period_pages"
    /\ page_num < MaxPeriodPages
    /\ \E n \in 1..MaxPageSize :
        LET page == [k \in 1..n |-> posting_period_name]
        IN \E w \in SinkOutcomes(n) :
            LET r == process_page(page, w)
            IN /\ written' = r.written
               /\ total_processed' = r.total_processed
               /\ bookmark' = r.bookmark
               /\ emitted' = r.emitted
               /\ sinkOk' = r.sinkOk
               /\ unrecorded' = IF r.stateIssued THEN 0
                                ELSE unrecorded + r.dispatches
               /\ pc' = IF r.raised THEN "period_bp" ELSE pc
    /\ page_num' = page_num + 1
    /\ UNCHANGED <<pipeline, cfg, requests, lastKind, periodVars>>
    /\ UNCHANGED <<prior, data, minId, nextOff, waiting, inflight, results,
                   toYield, chunkEnded, yielded, pageLog, chunkLog, ooo>>

\* gl_detail.py 507-509: an error of the page fetch is logged and raised, and
\* sync does not catch it.
PS_Fail ==
    /\ UNCHANGED <<streamVars, pageVars, faVars, signVars, periodVars, unitVars>>
    /\ pipeline = "periods" /\ pc = "period_pages"
    /\ pc' = "raised"
    /\ UNCHANGED shared_but_pc

\* gl_detail.py 298-329: _sync_page_by_page has returned.  After a broken
\* pipe it returned the state dict (504-506), and adding that to the total
\* raises TypeError at 311; the stats entry made of it at 301 is read by
\* nothing afterwards and is left out.
PS_End ==
    /\ UNCHANGED <<streamVars, pageVars, faVars, signVars, unitVars>>
    /\ pipeline = "periods" /\ pc \in {"period_pages", "period_bp"}
    /\ LET period_records == total_processed
           stats == [q \in DOMAIN period_stats \cup {posting_period_name} |->
                        IF q = posting_period_name THEN period_records
                        ELSE period_stats[q]]
           completed == completed_periods \cup {posting_period_name}
           total == total_records_all_periods + period_records
           bm == [total_record_count |-> total,
                  completed_posting_periods |-> sorted_list(completed),
                  posting_period_stats |-> stats,
                  replication_method |-> ReplicationMethod,
                  sync_completed |-> FALSE]
       IN IF pc = "period_bp"
          THEN /\ pc' = "raised"
               /\ completed_periods' = completed
               /\ UNCHANGED <<bookmark, emitted, sinkOk, period_stats,
                              total_records_all_periods, period_todo,
                              posting_period_name>>
          ELSE /\ period_stats' = stats
               /\ completed_periods' = completed
               /\ total_records_all_periods' = total
               /\ \E w \in SinkOutcomes(0) :
                   /\ bookmark' = bm
                   /\ sinkOk' = (w = 1)
                   /\ emitted' = IF w = 1 THEN Append(emitted, bm) ELSE emitted
               /\ period_todo' = Tail(period_todo)
               /\ posting_period_name' = None
               /\ pc' = "period_loop"
    /\ UNCHANGED <<pipeline, cfg, written, requests, unrecorded, lastKind,
                   total_processed, syncLog, written_base>>

\* gl_detail.py 331-340: the loop is over, sync_completed is set in the
\* bookmark and the state written.
PS_Final ==
    /\ UNCHANGED <<streamVars, pageVars, faVars, signVars, periodVars, unitVars>>
    /\ pipeline = "periods" /\ pc = "period_loop"
    /\ period_todo = << >>
    /\ LET bm == [k \in DOMAIN bookmark \cup {"sync_completed"} |->
                     IF k = "sync_completed" THEN TRUE ELSE bookmark[k]]
       IN \E w \in SinkOutcomes(0) :
           /\ bookmark' = bm
           /\ sinkOk' = (w = 1)
           /\ emitted' = IF w = 1 THEN Append(emitted, bm) ELSE emitted
    /\ pc' = "done"
    /\ UNCHANGED <<pipeline, cfg, written, requests, unrecorded, lastKind,
                   total_processed>>

PeriodsInit ==
    /\ pipeline = "periods"
    /\ pc = "period_loop"
    /\ cfg \in ([ posting_periods : UNION { PeriodListsOfLen(n) : n \in 1..MaxPeriods }, batch_size : 1..MaxBatchSize, incremental : {FALSE} ])
    /\ bookmark \in ({ EmptyDict } \cup { [total_record_count |-> Cardinality(S), completed_posting_periods |-> sorted_list(S), posting_period_stats |-> [q \in S |-> 1], replication_method |-> "FULL_TABLE", sync_completed |-> FALSE] : S \in SUBSET Periods })
    /\ prior = bookmark
    /\ emitted = << >>
    /\ written = << >>
    /\ sinkOk = TRUE
    /\ requests = 0
    /\ unrecorded = 0
    /\ lastKind = "none"
    /\ total_processed = 0
    /\ posting_period_name = None
    /\ period_todo = cfg.posting_periods
    /\ completed_periods = PriorCompleted
    /\ period_stats = (IF Has(prior, "posting_period_stats") THEN prior.posting_period_stats ELSE << >>)
    /\ total_records_all_periods = 0
    /\ syncLog = << >>
    /\ written_base = 0
    /\ data = << >>
    /\ minId = 0
    /\ nextOff = 0
    /\ waiting = << >>
    /\ inflight = {}
    /\ results = {}
    /\ toYield = << >>
    /\ chunkEnded = FALSE
    /\ page_num = 0
    /\ yielded = << >>
    /\ pageLog = << >>
    /\ chunkLog = << >>
    /\ ooo = FALSE
    /\ StreamIdle
    /\ FetchAllIdle
    /\ SignIdle
    /\ UnitsIdle

PeriodsNext == PS_Skip \/ PS_Begin \/ PS_Page \/ PS_Fail \/ PS_End \/ PS_Final

SpecPeriods == PeriodsInit /\ [][PeriodsNext]_vars

\* =========================================================================
\* The pagination loop of _fetch_chunk_data on its own, every answer allowed
\* at every turn.  The server holds MaxLoopRecords records; page_num, which
\* only counts, stops counting at MaxRequests.
\* =========================================================================
MaxLoopRecords == 3
MaxStartIndex == 2

\* client.py 336-380: one turn of "while True"; on a break the function
\* returns chunk_records.
L_Turn ==
    /\ UNCHANGED <<pageVars, faVars, signVars, periodVars, unitVars>>
    /\ pipeline = "chunkloop" /\ pc = "chunk_loop"
    /\ \E resp \in ({ [kind |-> "ok", results |-> rs, hasMore |-> h, next |-> x] : rs \in UNION { FreshRecords(n) : n \in 0..Min(MaxResults, MaxLoopRecords + 1 - nextRec) }, h \in BOOLEAN, x \in 0..MaxStartIndex } \cup FailResponses) :
        LET step == fetch_chunk_step(chunk_records, resp)
        IN /\ nextRec' = nextRec + Len(resp.results)
           /\ lastKind' = resp.kind
           /\ chunk_records' = step.chunk_records
           /\ IF step.more
              THEN /\ start_index' = step.start_index
                   /\ UNCHANGED <<pc, records>>
              ELSE /\ pc' = "chunk_returned"
                   /\ records' = step.chunk_records
                   /\ UNCHANGED start_index
    /\ requests' = Min(requests + 1, MaxRequests)
    /\ UNCHANGED <<pipeline, cfg, bookmark, emitted, written, sinkOk, unrecorded,
                   total_processed>>
    /\ UNCHANGED <<chunks, bi, total_records, processed_count, cbSizes,
                   callDone>>

ChunkLoopInit ==
    /\ pipeline = "chunkloop"
    /\ pc = "chunk_loop"
    /\ cfg = << >>
    /\ bookmark = EmptyDict
    /\ prior = EmptyDict
    /\ emitted = << >>
    /\ written = << >>
    /\ sinkOk = TRUE
    /\ requests = 0
    /\ unrecorded = 0
    /\ lastKind = "none"
    /\ total_processed = 0
    /\ StreamIdle
    /\ PagesIdle
    /\ FetchAllIdle
    /\ SignIdle
    /\ PeriodsIdle
    /\ UnitsIdle

SpecChunkLoop == ChunkLoopInit /\ [][L_Turn]_vars

\* The coroutine is resumed after every answer, and every request is
\* answered or times out: a turn that can be taken is taken.
SpecChunkLoopFair == SpecChunkLoop /\ WF_vars(L_Turn)

\* =========================================================================
\* The chunk building loop of _fetch_with_account_chunks on its own
\* =========================================================================
AccountSliceOverlapping(accs, i, size) == PySlice(accs, i, i + size + 1)

\* client.py 241: accounts[i:i + self.account_chunk_size]
AccountSlice(accs, i, size) == PySlice(accs, i, i + size)

\* client.py 242: the ids of the accounts of a slice that have one
chunk_ids(slice) == SelectSeq(slice, LAMBDA a : a # 0)

\* client.py 240-249: one turn of the for loop.
K_Slice ==
    /\ UNCHANGED <<pageVars, faVars, signVars, periodVars>>
    /\ UNCHANGED <<stateVars, plistVars, xformVars>>
    /\ pipeline = "chunking" /\ pc = "chunk_build"
    /\ acct_i < Len(account_list)
    /\ LET account_ids ==
               chunk_ids(AccountSlice(account_list, acct_i,
                                      cfg.account_chunk_size))
       IN chunks' = IF account_ids # << >> THEN Append(chunks, account_ids)
                    ELSE chunks
    /\ acct_i' = acct_i + cfg.account_chunk_size
    /\ UNCHANGED <<shared, account_list>>
    /\ UNCHANGED <<chunk_records, start_index, records, bi, total_records,
                   processed_count, cbSizes, callDone, nextRec>>

\* client.py 251-263: the loop is over; without a chunk the single request
\* is used.
K_Built ==
    /\ UNCHANGED <<streamVars, pageVars, faVars, signVars, periodVars, unitVars>>
    /\ pipeline = "chunking" /\ pc = "chunk_build"
    /\ acct_i >= Len(account_list)
    /\ pc' = IF chunks = << >> THEN "chunks_none" ELSE "chunks_built"
    /\ UNCHANGED shared_but_pc

ChunkingInit ==
    /\ pipeline = "chunking"
    /\ pc = "chunk_build"
    /\ cfg \in [account_chunk_size : 1..MaxChunkSize]
    /\ account_list \in AccountLists
    /\ acct_i = 0
    /\ bookmark = EmptyDict
    /\ prior = EmptyDict
    /\ emitted = << >>
    /\ written = << >>
    /\ sinkOk = TRUE
    /\ requests = 0
    /\ unrecorded = 0
    /\ lastKind = "none"
    /\ total_processed = 0
    /\ state = << >>
    /\ input_state = << >>
    /\ emitted_states = << >>
    /\ period_queue = << >>
    /\ cur_period = << >>
    /\ fetch_log = << >>
    /\ raw_record = << >>
    /\ transformed = << >>
    /\ StreamIdle
    /\ PagesIdle
    /\ FetchAllIdle
    /\ SignIdle
    /\ PeriodsIdle

ChunkingNext == K_Slice \/ K_Built

SpecChunking == ChunkingInit /\ [][ChunkingNext]_vars

\* =========================================================================
\* The state dict across the bookmark writes of one stream's sync
\* =========================================================================
MaxWrites == 2

Streams == {"netsuite_general_ledger_detail", "other_stream"}

Absent == [absent |-> TRUE]

InputStates ==
    { ([none |-> TRUE]), EmptyDict } \cup { [bookmarks |-> f] : f \in (UNION { [ss -> ({ [record_count |-> 1, replication_method |-> "FULL_TABLE", sync_completed |-> TRUE], [replication_method |-> "FULL_TABLE", sync_started |-> TRUE] })] : ss \in SUBSET Streams }) }

\* sync.py 324-329, base.py 119-122, gl_detail.py 225-228: None and {} become
\* a dict with an empty 'bookmarks'.
with_bookmarks(st) ==
    IF Has(st, "bookmarks") THEN st ELSE [bookmarks |-> << >>]

set_stream_bookmark_replacing(st, stream, bm) ==
    [bookmarks |-> [n \in {stream} |-> bm]]

\* state['bookmarks'][stream_name] = bm
set_stream_bookmark(st, stream, bm) ==
    [bookmarks |-> [n \in DOMAIN st.bookmarks \cup {stream} |->
                       IF n = stream THEN bm ELSE st.bookmarks[n]]]

\* base.py 124-130: the bookmark update_bookmark builds from its kwargs
UpdatedBookmark(kwargs) ==
    [n \in {"last_sync", "replication_method"} \cup DOMAIN kwargs |->
        IF n \in DOMAIN kwargs THEN kwargs[n]
        ELSE IF n = "last_sync" THEN TRUE ELSE ReplicationMethod]

\* sync.py 321-344 and gl_detail.py 380-394: the bookmark a sync starts with.
W_Start ==
    /\ UNCHANGED <<streamVars, pageVars, faVars, signVars, periodVars>>
    /\ UNCHANGED <<acctVars, plistVars, xformVars>>
    /\ pipeline = "bookmarks" /\ pc = "writing"
    /\ Len(emitted_states) < MaxWrites
    /\ state' = set_stream_bookmark(with_bookmarks(state), cfg.stream,
                                    StartBookmark)
    /\ emitted_states' = Append(emitted_states, state')
    /\ UNCHANGED <<shared, input_state>>

\* sync.py 409-423 and gl_detail.py 481-499: a checkpoint.
W_Checkpoint ==
    /\ UNCHANGED <<streamVars, pageVars, faVars, signVars, periodVars>>
    /\ UNCHANGED <<acctVars, plistVars, xformVars>>
    /\ pipeline = "bookmarks" /\ pc = "writing"
    /\ Len(emitted_states) < MaxWrites
    /\ state' = set_stream_bookmark(with_bookmarks(state), cfg.stream,
                                    [record_count |-> Len(emitted_states),
                                     replication_method |-> ReplicationMethod])
    /\ emitted_states' = Append(emitted_states, state')
    /\ UNCHANGED <<shared, input_state>>

\* base.py 105-131: update_bookmark, and the write that follows it.
W_Update ==
    /\ UNCHANGED <<streamVars, pageVars, faVars, signVars, periodVars>>
    /\ UNCHANGED <<acctVars, plistVars, xformVars>>
    /\ pipeline = "bookmarks" /\ pc = "writing"
    /\ Len(emitted_states) < MaxWrites
    /\ \E kwargs \in ({ << >>, [record_count |-> 1], [replication_method |-> "x"] }) :
        state' = set_stream_bookmark(with_bookmarks(state), cfg.stream,
                                     UpdatedBookmark(kwargs))
    /\ emitted_states' = Append(emitted_states, state')
    /\ UNCHANGED <<shared, input_state>>

\* The sync returns its state.
W_Return ==
    /\ UNCHANGED <<streamVars, pageVars, faVars, signVars, periodVars, unitVars>>
    /\ pipeline = "bookmarks" /\ pc = "writing"
    /\ pc' = "returned"
    /\ UNCHANGED shared_but_pc

BookmarksInit ==
    /\ pipeline = "bookmarks"
    /\ pc = "writing"
    /\ cfg \in [stream : Streams, incremental : {FALSE}]
    /\ input_state \in InputStates
    /\ state = input_state
    /\ emitted_states = << >>
    /\ bookmark = EmptyDict
    /\ prior = EmptyDict
    /\ emitted = << >>
    /\ written = << >>
    /\ sinkOk = TRUE
    /\ requests = 0
    /\ unrecorded = 0
    /\ lastKind = "none"
    /\ total_processed = 0
    /\ account_list = << >>
    /\ acct_i = 0
    /\ period_queue = << >>
    /\ cur_period = << >>
    /\ fetch_log = << >>
    /\ raw_record = << >>
    /\ transformed = << >>
    /\ StreamIdle
    /\ PagesIdle
    /\ FetchAllIdle
    /\ SignIdle
    /\ PeriodsIdle

BookmarksNext == W_Start \/ W_Checkpoint \/ W_Update \/ W_Return

SpecBookmarks == BookmarksInit /\ [][BookmarksNext]_vars

\* =========================================================================
\* The period list: NetSuiteClient.fetch_gl_data_streaming
\* One call fetches the configured periods; each period is a run of data
\* requests and batch dispatches (_fetch_single_period_streaming), logged in
\* fetch_log with the position of the period in the loop.
\* =========================================================================
MaxPeriodList == 2
MaxPeriodEvents == 2

\* Python's None for an optional string argument
NoArg == "None"

RECURSIVE ListsUpTo(_, _)
ListsUpTo(S, n) ==
    IF n = 0 THEN {<< >>}
    ELSE LET shorter == ListsUpTo(S, n - 1)
         IN shorter \cup {Append(l, x) : l \in shorter, x \in S}

\* the keyword arguments of one _fetch_single_period_streaming call
PeriodArgs(pid, pname) == [period_id |-> pid, period_name |-> pname]

SelectBoth(ids, names) ==
    [i \in 1..Len(ids) |-> PeriodArgs(ids[i], NoArg)]
        \o [i \in 1..Len(names) |-> PeriodArgs(NoArg, names[i])]

\* client.py 138-155: the calls the loop makes, in order. A list is used when
\* it is non-empty; without either list one call is made with no period.
SelectPeriods(ids, names) ==
    IF ids # << >>
    THEN [i \in 1..Len(ids) |-> PeriodArgs(ids[i], NoArg)]
    ELSE IF names # << >>
    THEN [i \in 1..Len(names) |-> PeriodArgs(NoArg, names[i])]
    ELSE << PeriodArgs(NoArg, NoArg) >>

\* client.py 171-176: the period a call asks the RESTlet for
period_label(args) ==
    IF args.period_id \notin {NoArg, ""}
    THEN <<"period ID", args.period_id>>
    ELSE IF args.period_name \notin {NoArg, ""}
    THEN <<"period name", args.period_name>>
    ELSE <<"default period", "">>

LogEntry(kind) ==
    [pos |-> cur_period.pos, kind |-> kind,
     period_id |-> cur_period.period_id,
     period_name |-> cur_period.period_name,
     label |-> period_label(cur_period)]

EventsOfPeriod(log, pos) == { i \in DOMAIN log : log[i].pos = pos }

RequestsOfPeriod(log, pos) ==
    { i \in DOMAIN log : log[i].pos = pos /\ log[i].kind = "request" }

\* client.py 136-138: the call starts its loop over the periods.
N_Select ==
    /\ UNCHANGED <<streamVars, pageVars, faVars, signVars, periodVars>>
    /\ UNCHANGED <<acctVars, stateVars, xformVars>>
    /\ pipeline = "periodlist" /\ pc = "select"
    /\ period_queue' = SelectPeriods(cfg.period_ids, cfg.period_names)
    /\ cur_period' = [pos |-> 0, period_id |-> NoArg, period_name |-> NoArg]
    /\ pc' = "loop"
    /\ UNCHANGED fetch_log
    /\ UNCHANGED shared_but_pc

\* client.py 139-142, 145-148, 152-154: the next call of the loop begins.
N_Begin ==
    /\ UNCHANGED <<streamVars, pageVars, faVars, signVars, periodVars>>
    /\ UNCHANGED <<acctVars, stateVars, xformVars>>
    /\ pipeline = "periodlist" /\ pc = "loop" /\ period_queue # << >>
    /\ cur_period' = [pos |-> cur_period.pos + 1,
                      period_id |-> Head(period_queue).period_id,
                      period_name |-> Head(period_queue).period_name]
    /\ period_queue' = Tail(period_queue)
    /\ pc' = "fetching"
    /\ UNCHANGED fetch_log
    /\ UNCHANGED shared_but_pc

\* client.py 201-204, 256-259: the period's call issues a data request.
N_Request ==
    /\ UNCHANGED <<streamVars, pageVars, faVars, signVars, periodVars>>
    /\ UNCHANGED <<acctVars, stateVars, xformVars>>
    /\ pipeline = "periodlist" /\ pc = "fetching"
    /\ Cardinality(EventsOfPeriod(fetch_log, cur_period.pos)) < MaxPeriodEvents
    /\ fetch_log' = Append(fetch_log, LogEntry("request"))
    /\ UNCHANGED <<period_queue, cur_period>>
    /\ UNCHANGED shared

\* client.py 500-504: a batch of the records a request returned is handed to
\* the callback and awaited.
N_Batch ==
    /\ UNCHANGED <<streamVars, pageVars, faVars, signVars, periodVars>>
    /\ UNCHANGED <<acctVars, stateVars, xformVars>>
    /\ pipeline = "periodlist" /\ pc = "fetching"
    /\ RequestsOfPeriod(fetch_log, cur_period.pos) # {}
    /\ Cardinality(EventsOfPeriod(fetch_log, cur_period.pos)) < MaxPeriodEvents
    /\ fetch_log' = Append(fetch_log, LogEntry("batch"))
    /\ UNCHANGED <<period_queue, cur_period>>
    /\ UNCHANGED shared

\* client.py 140-143: the awaited call returns its count; every path through
\* _fetch_single_period_streaming has issued a data request by then.
N_EndPeriod ==
    /\ UNCHANGED <<streamVars, pageVars, faVars, signVars, periodVars>>
    /\ UNCHANGED <<acctVars, stateVars, xformVars>>
    /\ pipeline = "periodlist" /\ pc = "fetching"
    /\ RequestsOfPeriod(fetch_log, cur_period.pos) # {}
    /\ pc' = "loop"
    /\ UNCHANGED plistVars
    /\ UNCHANGED shared_but_pc

\* A request or the callback raises: the exception leaves the loop.
N_Raise ==
    /\ UNCHANGED <<streamVars, pageVars, faVars, signVars, periodVars>>
    /\ UNCHANGED <<acctVars, stateVars, xformVars>>
    /\ pipeline = "periodlist" /\ pc = "fetching"
    /\ pc' = "raised"
    /\ UNCHANGED plistVars
    /\ UNCHANGED shared_but_pc

\* client.py 157-160: the loop is over and the total is returned.
N_Return ==
    /\ UNCHANGED <<streamVars, pageVars, faVars, signVars, periodVars>>
    /\ UNCHANGED <<acctVars, stateVars, xformVars>>
    /\ pipeline = "periodlist" /\ pc = "loop" /\ period_queue = << >>
    /\ pc' = "done"
    /\ UNCHANGED plistVars
    /\ UNCHANGED shared_but_pc

PeriodListInit ==
    /\ pipeline = "periodlist"
    /\ pc = "select"
    /\ cfg \in [period_ids : ListsUpTo(({"", "p1", "p2"}), MaxPeriodList),
                period_names : ListsUpTo(({"Jan", "Feb"}), MaxPeriodList)]
    /\ period_queue = << >>
    /\ cur_period = << >>
    /\ fetch_log = << >>
    /\ bookmark = EmptyDict
    /\ prior = EmptyDict
    /\ emitted = << >>
    /\ written = << >>
    /\ sinkOk = TRUE
    /\ requests = 0
    /\ unrecorded = 0
    /\ lastKind = "none"
    /\ total_processed = 0
    /\ account_list = << >>
    /\ acct_i = 0
    /\ state = << >>
    /\ input_state = << >>
    /\ emitted_states = << >>
    /\ raw_record = << >>
    /\ transformed = << >>
    /\ StreamIdle
    /\ PagesIdle
    /\ FetchAllIdle
    /\ SignIdle
    /\ PeriodsIdle

PeriodListNext ==
    N_Select \/ N_Begin \/ N_Request \/ N_Batch \/ N_EndPeriod \/ N_Raise
        \/ N_Return

SpecPeriodList == PeriodListInit /\ [][PeriodListNext]_vars

\* =========================================================================
\* Identifier conversion: sync.transform_record and
\* GLDetailStream.transform_record on the two key fields of a raw record.
\* A Python value is a record [t, i, s]: its type, its integer value and its
\* text (a string's characters, or a float written out).
\* =========================================================================
PyNone == [t |-> "none", i |-> 0, s |-> ""]
\* the key is not in the raw record
Missing == [t |-> "missing", i |-> 0, s |-> ""]
PyInt(n) == [t |-> "int", i |-> n, s |-> ""]
PyFloat(f) == [t |-> "float", i |-> 0, s |-> f]
PyStr(x) == [t |-> "str", i |-> 0, s |-> x]

RawValues ==
    {PyNone, Missing} \cup {PyInt(n) : n \in ({0, 7})}
        \cup {PyFloat(f) : f \in ({"0.0", "7.0", "7.5", "inf", "nan"})}
        \cup {PyStr(x) : x \in ({"", " ", "0", " 7 ", "0.0", "7.5", "abc", "inf", "nan"})}

KeyFields == {"internal_id", "trans_acct_line_id"}

\* the outcome of a call: a returned value or a raised exception
Returns(v) == [raised |-> FALSE, value |-> v, error |-> ""]
Raises(e) == [raised |-> TRUE, value |-> PyNone, error |-> e]

\* str.strip()
strip(x) ==
    CASE x = " " -> ""
      [] x = " 7 " -> "7"
      [] OTHER -> x

\* int(<str>): surrounding whitespace is accepted, a sign and digits only
int_of_str(x) ==
    CASE x = "0" -> Returns(PyInt(0))
      [] x \in {"7", " 7 "} -> Returns(PyInt(7))
      [] OTHER -> Raises("ValueError")

\* float(<str>)
float_of_str(x) ==
    CASE x \in {"0", "0.0"} -> Returns(PyFloat("0.0"))
      [] x \in {"7", " 7 "} -> Returns(PyFloat("7.0"))
      [] x = "7.5" -> Returns(PyFloat("7.5"))
      [] x = "inf" -> Returns(PyFloat("inf"))
      [] x = "nan" -> Returns(PyFloat("nan"))
      [] OTHER -> Raises("ValueError")

\* int(<float>): truncation; infinities and NaN have no integer
int_of_float(f) ==
    CASE f = "0.0" -> Returns(PyInt(0))
      [] f \in {"7.0", "7.5"} -> Returns(PyInt(7))
      [] f = "inf" -> Raises("OverflowError")
      [] OTHER -> Raises("ValueError")

\* sync.py 52-88
convert_to_integer(value) ==
    IF value.t = "none" \/ (value.t = "str" /\ value.s = "")
    THEN Returns(PyNone)
    ELSE IF value.t = "int" THEN Returns(value)
    ELSE IF value.t = "float" THEN int_of_float(value.s)
    ELSE LET cleaned == strip(value.s)
             direct == int_of_str(cleaned)
             as_float == float_of_str(cleaned)
             truncated == int_of_float(as_float.value.s)
         IN IF cleaned = "" THEN Returns(PyNone)
            ELSE IF ~direct.raised THEN direct
            ELSE IF as_float.raised THEN Returns(value)
            ELSE IF ~truncated.raised THEN truncated
            ELSE IF truncated.error = "ValueError" THEN Returns(value)
            ELSE truncated

\* base.py 150-157; r is int(value)
safe_int(value) ==
    IF value.t = "none" \/ (value.t = "str" /\ value.s = "")
    THEN Returns(PyNone)
    ELSE LET r == CASE value.t = "int" -> Returns(value)
                    [] value.t = "float" -> int_of_float(value.s)
                    [] value.t = "str" -> int_of_str(value.s)
                    [] OTHER -> Raises("TypeError")
         IN IF ~r.raised THEN r
            ELSE IF r.error \in {"ValueError", "TypeError"}
            THEN Returns(PyNone)
            ELSE r

\* sync.py 244-261, gl_detail.py 175-190: the record a transform returns from
\* the two converted keys: None when transformed.get(key) is None, the
\* exception when a conversion raised.
checked_record(a, b) ==
    IF a.raised THEN [outcome |-> "raised", error |-> a.error]
    ELSE IF b.raised THEN [outcome |-> "raised", error |-> b.error]
    ELSE IF b.value.t \in {"none", "missing"} THEN [outcome |-> "None"]
    ELSE IF a.value.t \in {"none", "missing"} THEN [outcome |-> "None"]
    ELSE [outcome |-> "record", internal_id |-> a.value,
          trans_acct_line_id |-> b.value]

\* sync.py 225-261: only the fields of the record are converted; a field
\* that is None or '' becomes None.
sync_field(record, field) ==
    IF record[field].t = "missing" THEN Returns(Missing)
    ELSE IF record[field].t = "none"
            \/ (record[field].t = "str" /\ record[field].s = "")
    THEN Returns(PyNone)
    ELSE convert_to_integer(record[field])

sync_transform_record(record) ==
    checked_record(sync_field(record, "internal_id"),
                   sync_field(record, "trans_acct_line_id"))

\* gl_detail.py 162-190
gl_transform_record(record) ==
    LET get(field) == IF record[field].t = "missing" THEN PyNone
                      ELSE record[field]
    IN checked_record(safe_int(get("internal_id")),
                      safe_int(get("trans_acct_line_id")))

\* sync.py 366, gl_detail.py 428: the record is transformed.
X_Transform ==
    /\ UNCHANGED <<streamVars, pageVars, faVars, signVars, periodVars>>
    /\ UNCHANGED <<acctVars, stateVars, plistVars>>
    /\ pipeline = "transform" /\ pc = "transform"
    /\ transformed' = IF cfg.stream = "sync"
                      THEN sync_transform_record(raw_record)
                      ELSE gl_transform_record(raw_record)
    /\ pc' = "transformed"
    /\ UNCHANGED raw_record
    /\ UNCHANGED shared_but_pc

\* sync.py 371-376, 400-402; gl_detail.py 431-435: a None result is skipped,
\* an exception is logged and the record skipped, a record goes on to be
\* written.
X_Handle ==
    /\ UNCHANGED <<streamVars, pageVars, faVars, signVars, periodVars>>
    /\ UNCHANGED <<acctVars, stateVars, plistVars>>
    /\ pipeline = "transform" /\ pc = "transformed"
    /\ pc' = IF transformed.outcome = "record" THEN "kept" ELSE "skipped"
    /\ UNCHANGED xformVars
    /\ UNCHANGED shared_but_pc

TransformInit ==
    /\ pipeline = "transform"
    /\ pc = "transform"
    /\ cfg \in [stream : {"sync", "gl_detail"}]
    /\ raw_record \in [KeyFields -> RawValues]
    /\ transformed = << >>
    /\ bookmark = EmptyDict
    /\ prior = EmptyDict
    /\ emitted = << >>
    /\ written = << >>
    /\ sinkOk = TRUE
    /\ requests = 0
    /\ unrecorded = 0
    /\ lastKind = "none"
    /\ total_processed = 0
    /\ account_list = << >>
    /\ acct_i = 0
    /\ state = << >>
    /\ input_state = << >>
    /\ emitted_states = << >>
    /\ period_queue = << >>
    /\ cur_period = << >>
    /\ fetch_log = << >>
    /\ StreamIdle
    /\ PagesIdle
    /\ FetchAllIdle
    /\ SignIdle
    /\ PeriodsIdle

TransformNext == X_Transform \/ X_Handle

SpecTransform == TransformInit /\ [][TransformNext]_vars

\* =========================================================================
\* Request signing: NetSuiteClient.generate_oauth_header
\* A string is a sequence of characters; a parameter name is one token of
\* unreserved characters.
\* =========================================================================
MaxSecretLen == 2

RECURSIVE StringsUpTo(_)
StringsUpTo(n) ==
    IF n = 0 THEN {<< >>}
    ELSE LET shorter == StringsUpTo(n - 1)
         IN shorter \cup {Append(s, c) : s \in shorter, c \in ({"a", "&", "%"})}

Secrets == StringsUpTo(MaxSecretLen)

\* urllib.parse.quote(c, safe='') of one character
quote_char(c) ==
    CASE c = "&" -> <<"%", "2", "6">>
      [] c = "%" -> <<"%", "2", "5">>
      [] c = "=" -> <<"%", "3", "D">>
      [] c = "/" -> <<"%", "2", "F">>
      [] c = ":" -> <<"%", "3", "A">>
      [] OTHER -> <<c>>

RECURSIVE quote(_)
quote(s) == IF s = << >> THEN << >> ELSE quote_char(Head(s)) \o quote(Tail(s))

\* the names of signature_params in lexicographic order
SortedKeys ==
    <<"deploy", "oauth_consumer_key", "oauth_nonce", "oauth_signature_method",
      "oauth_timestamp", "oauth_token", "oauth_version", "script">>

KeyRank(k) == CHOOSE i \in 1..Len(SortedKeys) : SortedKeys[i] = k

\* signature_params: url_params updated with oauth_params, in insertion order
signature_params(c, oauth_nonce) ==
    << [k |-> "deploy", v |-> c.deploy_id],
       [k |-> "script", v |-> c.script_id],
       [k |-> "oauth_consumer_key", v |-> c.consumer_key],
       [k |-> "oauth_nonce", v |-> oauth_nonce],
       [k |-> "oauth_signature_method", v |-> <<"HMAC-SHA256">>],
       [k |-> "oauth_timestamp", v |-> <<"1">>],
       [k |-> "oauth_token", v |-> c.token_id],
       [k |-> "oauth_version", v |-> <<"1", ".", "0">>] >>

\* sorted(signature_params.items())
sorted_params(items) ==
    [i \in 1..Len(items) |->
        CHOOSE it \in {items[j] : j \in 1..Len(items)} : KeyRank(it.k) = i]

RECURSIVE join_pairs(_)
join_pairs(items) ==
    IF items = << >> THEN << >>
    ELSE LET pair == quote(<<Head(items).k>>) \o <<"=">> \o quote(Head(items).v)
         IN IF Len(items) = 1 THEN pair
            ELSE pair \o <<"&">> \o join_pairs(Tail(items))

param_string(c, oauth_nonce) ==
    join_pairs(sorted_params(signature_params(c, oauth_nonce)))

signature_base(c, oauth_nonce) ==
    <<"POST", "&">> \o quote(c.base_url) \o <<"&">>
        \o quote(param_string(c, oauth_nonce))

signing_key(c) == c.consumer_secret \o <<"&">> \o c.token_secret

\* hmac.new(key, msg, sha256): a signature determines its key and message
hmac_sha256(key, msg) == [key |-> key, msg |-> msg]

G_Sign ==
    /\ UNCHANGED <<streamVars, pageVars, faVars, periodVars, unitVars>>
    /\ pipeline = "sign" /\ pc = "sign"
    /\ \E oauth_nonce \in ({<<"0">>, <<"f">>}) :
        oauth_signature' =
            [nonce |-> oauth_nonce,
             hmac  |-> hmac_sha256(signing_key(credentials),
                                   signature_base(credentials, oauth_nonce))]
    /\ pc' = "signed"
    /\ UNCHANGED <<pipeline, cfg, bookmark, emitted, written, sinkOk, requests,
                   unrecorded, lastKind, total_processed, credentials>>

SignInit ==
    /\ pipeline = "sign"
    /\ pc = "sign"
    /\ credentials \in [consumer_secret : Secrets,
                        token_secret : Secrets,
                        consumer_key : {<<"k">>},
                        token_id : {<<"t">>},
                        deploy_id : {<<"1">>, <<"a", "&">>},
                        script_id : {<<"2">>},
                        base_url : {<<"https", ":", "/", "/", "host", "/", "r">>}]
    /\ oauth_signature = << >>
    /\ cfg = << >>
    /\ bookmark = EmptyDict
    /\ prior = EmptyDict
    /\ emitted = << >>
    /\ written = << >>
    /\ sinkOk = TRUE
    /\ requests = 0
    /\ unrecorded = 0
    /\ lastKind = "none"
    /\ total_processed = 0
    /\ StreamIdle
    /\ PagesIdle
    /\ FetchAllIdle
    /\ PeriodsIdle
    /\ UnitsIdle

SpecSign == SignInit /\ [][G_Sign]_vars

\* =========================================================================
\* The three paths together
\* =========================================================================
Init == StreamInit \/ PagesInit \/ FetchAllInit

Next == StreamNext \/ PagesNext \/ F_Request

Spec == Init /\ [][Next]_vars

\* =========================================================================
\* Properties
\* =========================================================================

\* C1: a chunk that ends at the offset ceiling with a full last page is
\* followed by a chunk anchored at the last yielded internal id, and a run that
\* completes has yielded every row of the dataset exactly once, in order.
AllRowsYieldedOnce ==
    pipeline = "pages" /\ pc = "done" => yielded = Positions(data)

\* C2: whatever the configuration and the completion order of the fetches,
\* the internal ids of the rows yielded over the whole run never decrease.
YieldedNonDecreasing ==
    pipeline = "pages" =>
        \A i \in 1..Len(yielded) : \A j \in i..Len(yielded) :
            data[yielded[i]] <= data[yielded[j]]

YieldedAcrossChunksOutOfOrder ==
    /\ pipeline = "pages"
    /\ Len(chunkLog) >= 2
    /\ ooo
    /\ Len(yielded) >= 3
    /\ data[yielded[1]] < data[yielded[Len(yielded)]]

\* C3: a run started from a bookmark whose last_internal_id is N yields only
\* rows whose internal id is greater than N.
ResumeSkipsBookmarked ==
    pipeline = "pages" /\ Has(prior, "last_internal_id") =>
        \A k \in 1..Len(yielded) : data[yielded[k]] > prior.last_internal_id

\* C4: when a run ends successfully the bookmark holds last_internal_id, equal
\* to the internal id of the last row yielded.
FinalBookmarkHasLastId ==
    pipeline \in {"stream", "pages"} /\ pc = "done" =>
        /\ Has(bookmark, "last_internal_id")
        /\ (pipeline = "pages" /\ yielded # << >> =>
                bookmark.last_internal_id = data[yielded[Len(yielded)]])

\* The batch sizes claim C5 expects for n records and batch size b.
ExpectedSizes(n, b) ==
    [k \in 1..CeilDiv(n, b) |-> IF k * b <= n THEN b ELSE n - (k - 1) * b]

\* C5: for n records and batch size b the callback is invoked ceil(n/b) times,
\* every batch holding b records except the last, which holds the remainder.
BatchSizesExact ==
    pipeline = "stream" /\ callDone =>
        cbSizes = ExpectedSizes(total_records, cfg.batch_size)

\* C6: at every instant at most `concurrency` page fetches are in flight, and
\* a fetch starts only while fewer than `concurrency` are in flight.
ConcurrencyBounded ==
    /\ [](pipeline = "pages" => Cardinality(inflight) <= cfg.concurrency)
    /\ [][pipeline = "pages" /\ inflight' # inflight /\ inflight \subseteq inflight'
            => Cardinality(inflight) < cfg.concurrency]_vars

SemaphoreFullWithWaiters ==
    /\ pipeline = "pages"
    /\ cfg.concurrency >= 2
    /\ Cardinality(inflight) = cfg.concurrency
    /\ waiting # << >>

\* C7: within a chunk the pages are yielded in ascending offset order,
\* 0, page_size, 2*page_size, ..., whatever order the fetches completed in.
PagesInOffsetOrder ==
    pipeline = "pages" =>
        \A k \in 1..Len(pageLog) : pageLog[k] = (k - 1) * cfg.page_size

TwoPagesYieldedAfterReordering ==
    /\ pipeline = "pages"
    /\ ooo
    /\ Len(chunkLog) = 1
    /\ Len(pageLog) >= 2

\* C8: in the paginated loops a "not found" response has the effect of an
\* empty page: the loop ends, nothing is raised, and the records and the
\* resulting state are the same in both cases.
NotFoundIsEmptyPage ==
    /\ pipeline = "stream" /\ pc = "chunk_fetch" =>
        /\ fetch_chunk_step(chunk_records, NotFoundResponse)
             = fetch_chunk_step(chunk_records, ([kind |-> "ok", results |-> << >>, hasMore |-> FALSE, next |-> 0]))
        /\ ~fetch_chunk_step(chunk_records, NotFoundResponse).more
        /\ ~fetch_chunk_step(chunk_records, NotFoundResponse).raised
    /\ pipeline = "fetchall" /\ pc = "loop" =>
        /\ fetch_all_step(all_items, offset, NotFoundItems)
             = fetch_all_step(all_items, offset, ([kind |-> "ok", items |-> << >>]))
        /\ fetch_all_step(all_items, offset, NotFoundItems).done
        /\ ~fetch_all_step(all_items, offset, NotFoundItems).raised

NotFoundEndedLoopWithItems ==
    /\ pipeline = "fetchall"
    /\ lastKind = "notfound"
    /\ pc = "done"
    /\ all_items # << >>

\* C9: no remote fetch is issued while a dispatched batch still waits for its
\* state write, and while the sink accepts writes the bookmark of the last
\* dispatch is the last state written.
StateWrittenBeforeNextFetch ==
    [][requests' > requests =>
          /\ unrecorded = 0
          /\ (sinkOk /\ total_processed > 0 =>
                 emitted # << >> /\ emitted[Len(emitted)] = bookmark)]_vars

FetchAfterDispatch ==
    /\ pipeline = "stream"
    /\ sinkOk
    /\ written # << >>
    /\ chunk_records # << >>


FinalWriteOnAbort ==
    [][pc' = "raised" /\ pc # "raised" /\ sinkOk =>
          Len(emitted') = Len(emitted) + 1 \/ ~sinkOk']_vars

\* C12: after a callback invocation has raised (the sink disconnected) no
\* further request is issued and no further batch is dispatched.
CallbackFailureStops ==
    [][pipeline = "stream" /\ ~sinkOk =>
          requests' = requests /\ cbSizes' = cbSizes /\ written' = written]_vars

\* C13: after an application error of the remote API on a fetch of a chunk,
\* no record of that chunk is dispatched and no later chunk is fetched.
ApiErrorIsFatal ==
    [][/\ pipeline = "stream"
       /\ lastKind \in {"payload", "http"}
       /\ pc \in {"chunk_fetch", "chunk_batches"}
       => requests' = requests /\ cbSizes' = cbSizes /\ written' = written]_vars

\* C14: after a transport failure (timeout, connection error) of a request
\* the run issues no further request.
TransportFailureIsFatal ==
    [][pipeline = "stream" /\ lastKind \in {"timeout", "transport"} =>
          requests' = requests]_vars

\* C15: a record whose required identifier is missing is dropped without
\* aborting: while the sink accepts writes, a dispatch writes every other
\* record of the batch and then the batch's checkpoint.
InvalidRecordDropped ==
    [][/\ pipeline = "stream"
       /\ Len(cbSizes') = Len(cbSizes) + 1
       /\ sinkOk'
       => /\ written' = written \o Transformed(CurrentBatch)
          /\ \A k \in 1..Len(CurrentBatch) :
                CurrentBatch[k] > 0 =>
                    \E j \in 1..Len(written') : written'[j] = CurrentBatch[k]
          /\ emitted' = Append(emitted, bookmark')
          /\ bookmark'.record_count = total_processed + Len(Transformed(CurrentBatch))
          /\ pc' # "raised"]_vars

BatchWithDroppedRecordRecorded ==
    /\ pipeline = "stream"
    /\ sinkOk
    /\ cbSizes = <<2>>
    /\ nextRec = 3
    /\ Len(written) = 1
    /\ Has(bookmark, "current_batch")
    /\ bookmark.record_count = 1
    /\ emitted[Len(emitted)] = bookmark

\* C16: the fetch ends only on a short or empty page: it never ends because
\* the offset ceiling was reached after a full-sized page.
FetchEndsOnlyOnShortPage ==
    [][/\ pipeline = "fetchall"
       /\ pc = "loop" /\ pc' = "done"
       /\ lastKind' # "http"
       => offset <= cfg.offset_ceiling]_vars

\* C17: once a short or empty page is observed in a
\* chunk, no page of a later offset of that chunk is yielded: a page with fewer
\* than page_size rows can only be the last page yielded in its chunk.
NothingYieldedAfterShortPage ==
    pipeline = "pages" =>
        \A k \in 1..Len(pageLog) :
            Len(ServerPage(minId, pageLog[k])) < cfg.page_size
                => k = Len(pageLog)

ShortPageBeforeFetchedOffsets ==
    /\ pipeline = "pages"
    /\ pc = "yielding"
    /\ chunkEnded
    /\ toYield = << >>
    /\ pageLog # << >>
    /\ Len(ServerPage(minId, pageLog[Len(pageLog)])) < cfg.page_size
    /\ pageLog[Len(pageLog)] + cfg.page_size <= cfg.offset_ceiling
    /\ pageLog[Len(pageLog)] + cfg.page_size < nextOff

\* C18: across the chunks of a run the minimum_id boundary strictly increases.
MinimumIdStrictlyIncreasing ==
    pipeline = "pages" =>
        \A k \in 1..(Len(chunkLog) - 1) : chunkLog[k] < chunkLog[k + 1]

ThreeChunksStarted ==
    /\ pipeline = "pages"
    /\ Len(chunkLog) >= 3

\* C19: the fetched records held and not yet dispatched never exceed
\* batch_size plus one answer in flight.
HeldRecordsBounded ==
    pipeline = "stream" =>
        Len(chunk_records) + Len(records) <= cfg.batch_size + MaxResults

\* C20: batches are assembled across pages: a batch of fewer than batch_size
\* records is written only at the end of the page stream, that is with the
\* short page that ends the fetch.
PartialBatchOnlyAtStreamEnd ==
    [][/\ pipeline = "pages"
       /\ page_num' = page_num + 1
       /\ sinkOk'
       => LET n == Len(Head(toYield).page)
              sizes == page_batch_sizes(n, cfg.batch_size)
          IN (\E k \in 1..Len(sizes) : sizes[k] < cfg.batch_size)
                 => n < cfg.page_size]_vars

\* C21: a failure of a fetch or of a chunk other than end-of-data is never
\* swallowed: a run whose last request failed that way does not finish as a
\* successful run.
FailureNeverEndsAsSuccess ==
    pipeline = "stream" /\ pc = "done" =>
        lastKind \notin {"payload", "http", "timeout", "transport"}


\* C22: the signature is computed with the key percent-encoded consumer secret,
\* "&", percent-encoded token secret, over the base string POST & encoded url &
\* encoded parameter string.
SignatureKeyEncoded ==
    pipeline = "sign" /\ pc = "signed" =>
        /\ oauth_signature.hmac.key =
               quote(credentials.consumer_secret) \o <<"&">>
                   \o quote(credentials.token_secret)
        /\ oauth_signature.hmac.msg =
               signature_base(credentials, oauth_signature.nonce)

\* C23: every input record is delivered to the callback exactly once and in
\* input order: the batch handed to the callback at offset bi is the slice
\* [bi, bi + batch_size) of the record list as it was on entry, whose ids
\* are the total_records ids that end at nextRec - 1.
BatchIsSliceOfEntryList ==
    pipeline = "stream"
        /\ pc \in {"chunk_batches", "single_batches", "single_try_batches"}
        /\ bi < total_records =>
        /\ Len(CurrentBatch) = Min(cfg.batch_size, total_records - bi)
        /\ \A k \in 1..Len(CurrentBatch) :
               LET id == nextRec - total_records + bi + k - 1
               IN CurrentBatch[k] \in {id, 0 - id}

\* C24: when no callback invocation raises, the count returned by
\* _process_records_in_streaming_batches equals the number of records
\* retrieved for the request.
ReturnedCountIsRetrieved ==
    pipeline = "stream" /\ callDone => processed_count = total_records

\* C25: re-anchoring loses no rows when several rows share one internal id:
\* in a completed run every row whose id is the anchor of a later chunk has
\* been yielded, the rows of that group past the ceiling included.
AnchorGroupFullyYielded ==
    pipeline = "pages" /\ pc = "done" =>
        \A i \in 2..Len(chunkLog) : \A p \in 1..Len(data) :
            data[p] = chunkLog[i] => \E j \in 1..Len(yielded) : yielded[j] = p

\* C26: the bookmark gets sync_completed = true only in a run that wrote
\* everything it fetched to the sink: a run in which the pipe has broken never
\* sets sync_completed = true in the state it returns.
SyncCompletedOnlyAfterFullRun ==
    [][pipeline = "stream" /\ pc' = "done"
          /\ Has(bookmark', "sync_completed") /\ bookmark'.sync_completed
          => sinkOk]_vars

\* C27: completed posting periods are never forgotten within a run: once an
\* emitted state lists a period in completed_posting_periods, every state
\* emitted later lists it too.
CompletedPeriodsNeverForgotten ==
    pipeline = "periods" =>
        \A i \in 1..Len(emitted) : \A j \in i..Len(emitted) :
            Has(emitted[i], "completed_posting_periods") =>
                /\ Has(emitted[j], "completed_posting_periods")
                /\ set_of(emitted[i].completed_posting_periods) \subseteq
                       set_of(emitted[j].completed_posting_periods)

\* The configured periods that are not in the incoming state's completed
\* list, each once, in configuration order.
RECURSIVE PeriodsToSync(_, _)
PeriodsToSync(l, seen) ==
    IF l = << >> THEN << >>
    ELSE IF Head(l) \in seen THEN PeriodsToSync(Tail(l), seen)
    ELSE <<Head(l)>> \o PeriodsToSync(Tail(l), seen \cup {Head(l)})

\* C28: a period listed in the incoming state's completed_posting_periods is
\* never fetched in this run, and every other configured period is synced
\* exactly once, in configuration order.
PeriodsSyncedOnceInOrder ==
    pipeline = "periods" =>
        LET expected == PeriodsToSync(cfg.posting_periods, PriorCompleted)
        IN /\ \A i \in 1..Len(syncLog) : syncLog[i] \notin PriorCompleted
           /\ Len(syncLog) <= Len(expected)
           /\ syncLog = SubSeq(expected, 1, Len(syncLog))
           /\ pc = "done" => syncLog = expected

SkippedOneSyncedTwo ==
    /\ pipeline = "periods" /\ pc = "done"
    /\ \E i \in 1..Len(cfg.posting_periods) :
           cfg.posting_periods[i] \in PriorCompleted
    /\ Len(syncLog) = 2
    /\ syncLog[1] > syncLog[2]

\* C29 as stated: in every emitted checkpoint record_count equals the number
\* of records written to the sink for the stream in this run.
RecordCountIsAllWritten ==
    [][emitted' # emitted /\ Has(emitted'[Len(emitted')], "record_count")
           => emitted'[Len(emitted')].record_count = Len(written')]_vars

\* C29: in every emitted checkpoint record_count equals the number of
\* records written to the sink since the pass that emits it began (the whole
\* run without posting periods, the current posting period with them): it
\* never counts a record that has not been written and never omits one of
\* the pass that has.
RecordCountIsWrittenInPass ==
    [][emitted' # emitted /\ Has(emitted'[Len(emitted')], "record_count")
           => emitted'[Len(emitted')].record_count
                  = Len(written') - written_base']_vars

CheckpointInSecondPeriod ==
    /\ pipeline = "periods"
    /\ written_base > 0
    /\ emitted # << >>
    /\ Has(emitted[Len(emitted)], "current_posting_period")
    /\ Has(emitted[Len(emitted)], "record_count")
    /\ emitted[Len(emitted)].record_count > 0
    /\ emitted[Len(emitted)].current_posting_period = posting_period_name

\* C30: the pagination loop of _fetch_chunk_data always terminates: for every
\* sequence of server answers the function eventually returns.
ChunkLoopTerminates ==
    pipeline = "chunkloop" => <>(pc = "chunk_returned")

\* C31: for every finite dataset ordered by internal id the chunked fetch
\* terminates: each chunk started at the ceiling strictly advances minimum_id,
\* and the run eventually ends.
ChunkedFetchTerminates ==
    /\ [][pipeline = "pages" /\ pc # "start" /\ chunkLog' # chunkLog
            => minId' > minId]_vars
    /\ (pipeline = "pages" ~> pc \in {"done", "raised"})

EndedAfterCeilingChunk ==
    /\ pipeline = "pages" /\ pc = "done"
    /\ Len(chunkLog) >= 3
    /\ Len(yielded) = Len(data)

RECURSIVE Flatten(_)
Flatten(ss) == IF ss = << >> THEN << >> ELSE Head(ss) \o Flatten(Tail(ss))

\* C32: the account chunks partition the accounts that have an id: their
\* concatenation is the list of those ids in the original order (each id in
\* exactly one chunk), no chunk is empty and none holds more than
\* account_chunk_size ids.
ChunksPartitionAccounts ==
    pipeline = "chunking" /\ pc \in {"chunks_built", "chunks_none"} =>
        /\ Flatten(chunks) = SelectSeq(account_list, LAMBDA a : a # 0)
        /\ \A k \in 1..Len(chunks) :
               /\ chunks[k] # << >>
               /\ Len(chunks[k]) <= cfg.account_chunk_size
        /\ chunks = account_chunks(account_list, cfg.account_chunk_size)

TwoChunksAroundAccountWithoutId ==
    /\ pipeline = "chunking" /\ pc = "chunks_built"
    /\ Len(chunks) = 2
    /\ Len(account_list) = 3
    /\ \E k \in 1..Len(account_list) : account_list[k] = 0

\* C33: a period is fetched either by chunked requests or by one single
\* unchunked request, never both and never twice: once the unchunked request
\* of a period has been issued, no further unchunked request follows.
OneUnchunkedRequestPerPeriod ==
    [][pipeline = "stream" /\ pc \in {"single_try", "single_try_batches"}
          => pc' # "single"]_vars

\* C34: fetch_all_data requests the offsets 0, limit, 2*limit, ... in order,
\* stops at the first empty or short page, and when every response is a
\* success returns all rows of the dataset exactly once in server order.
FetchAllReturnsDataset ==
    pipeline = "fetchall" =>
        /\ pc = "loop" =>
               /\ offset = requests * FetchAllLimit
               /\ all_items = PySlice(Positions(data), 0, offset)
        /\ pc = "done" /\ lastKind = "ok" =>
               /\ requests = (Len(data) \div FetchAllLimit) + 1
               /\ offset = (requests - 1) * FetchAllLimit
               /\ all_items = Positions(data)

FetchedExactMultipleOfLimit ==
    /\ pipeline = "fetchall" /\ pc = "done" /\ lastKind = "ok"
    /\ Len(data) = FetchAllLimit
    /\ requests = 2
    /\ all_items = Positions(data)

\* The bookmark entry of a stream in a state dict.
Entry(st, stream) ==
    IF Has(st, "bookmarks") /\ stream \in DOMAIN st.bookmarks
    THEN st.bookmarks[stream] ELSE Absent

\* C35: syncing one stream changes only that stream's entry under bookmarks:
\* in every state emitted or returned while the stream is synced, the entries
\* of all other streams are what they were in the input state.
OtherBookmarksUntouched ==
    pipeline = "bookmarks" =>
        \A other \in Streams \ {cfg.stream} :
            /\ Entry(state, other) = Entry(input_state, other)
            /\ \A i \in 1..Len(emitted_states) :
                   Entry(emitted_states[i], other) = Entry(input_state, other)

TwoWritesBesideOtherStream ==
    /\ pipeline = "bookmarks" /\ pc = "returned"
    /\ Len(emitted_states) = 2
    /\ \A n \in Streams : Entry(input_state, n) # Absent
    /\ Entry(state, cfg.stream) # Entry(input_state, cfg.stream)

\* C36: fetch_gl_data_streaming fetches the requested periods one after
\* another in list order: every request and batch of a period comes before
\* the first request of the next one, each call carries the period at its
\* position of the list, and when both period_ids and period_names are given
\* the calls are exactly those of the ids, none for a name.
PeriodsFetchedInListOrder ==
    pipeline = "periodlist" /\ pc # "select" =>
        LET ids == cfg.period_ids
            names == cfg.period_names
            requested == IF ids # << >> THEN ids ELSE names
        IN /\ \A i, j \in DOMAIN fetch_log :
                  i < j => fetch_log[i].pos <= fetch_log[j].pos
           /\ \A i \in DOMAIN fetch_log :
                  /\ fetch_log[i].kind = "batch" =>
                         \E r \in RequestsOfPeriod(fetch_log, fetch_log[i].pos) :
                             r < i
                  /\ requested # << >> =>
                         /\ fetch_log[i].pos \in 1..Len(requested)
                         /\ IF ids # << >>
                            THEN /\ fetch_log[i].period_id = ids[fetch_log[i].pos]
                                 /\ fetch_log[i].period_name = NoArg
                                 /\ fetch_log[i].label[1] # "period name"
                            ELSE /\ fetch_log[i].period_name =
                                        names[fetch_log[i].pos]
                                 /\ fetch_log[i].period_id = NoArg
           /\ pc = "done" /\ requested # << >> =>
                  \A k \in 1..Len(requested) :
                      RequestsOfPeriod(fetch_log, k) # {}

BothListsTwoIdsFetched ==
    /\ pipeline = "periodlist" /\ pc = "done"
    /\ Len(cfg.period_ids) = 2 /\ cfg.period_names # << >>
    /\ \E i \in DOMAIN fetch_log :
           fetch_log[i].pos = 1 /\ fetch_log[i].kind = "batch"
    /\ \E i \in DOMAIN fetch_log :
           fetch_log[i].pos = 2 /\ fetch_log[i].kind = "batch"

\* an identifier that is 0: the number, or the string "0"
IsZeroId(value) ==
    \/ value.t = "int" /\ value.i = 0
    \/ value.t = "str" /\ value.s = "0"

\* null (None or absent) or empty (a string of nothing but whitespace)
NullOrEmpty(value) ==
    \/ value.t \in {"none", "missing"}
    \/ value.t = "str" /\ value.s \in {"", " "}

\* a value that has an integer: an int, a finite float, an integer literal
ConvertibleToInteger(value) ==
    \/ value.t = "int"
    \/ value.t = "float" /\ value.s \notin {"inf", "nan"}
    \/ value.t = "str" /\ value.s \in {"0", " 7 "}

\* C37: a record whose internal_id or trans_acct_line_id is 0 (number or the
\* string "0") is kept, and a record is dropped only when one of the two keys
\* is null, empty, or (in GLDetailStream) not convertible to an integer.
RecordDroppedOnlyWithoutKey ==
    pipeline = "transform" /\ pc \in {"kept", "skipped"} =>
        /\ (/\ \E k \in KeyFields : IsZeroId(raw_record[k])
            /\ \A k \in KeyFields :
                   IsZeroId(raw_record[k]) \/ raw_record[k] = PyInt(7))
               => pc = "kept"
        /\ pc = "skipped" =>
               \E k \in KeyFields :
                   \/ NullOrEmpty(raw_record[k])
                   \/ /\ cfg.stream = "gl_detail"
                      /\ ~ConvertibleToInteger(raw_record[k])

\* Zero identifiers pass both transforms: a record whose keys are 0, "0" or
\* another integer comes back as a record with the integer 0 in place.
ZeroIdentifierKept ==
    pipeline = "transform" /\ pc # "transform" =>
        \A k \in KeyFields :
            (/\ IsZeroId(raw_record[k])
             /\ \A o \in KeyFields :
                    IsZeroId(raw_record[o]) \/ raw_record[o] = PyInt(7))
                => /\ transformed.outcome = "record"
                   /\ transformed[k] = PyInt(0)

\* What transform_record itself returns as None: only records with a null,
\* empty or (GLDetailStream) unconvertible key.
NoneOnlyWithoutKey ==
    pipeline = "transform" /\ pc # "transform"
        /\ transformed.outcome = "None" =>
            \E k \in KeyFields :
                \/ NullOrEmpty(raw_record[k])
                \/ /\ cfg.stream = "gl_detail"
                   /\ ~ConvertibleToInteger(raw_record[k])

ZeroStringKeptBesideZero ==
    /\ pipeline = "transform" /\ pc = "kept"
    /\ raw_record["internal_id"] = PyStr("0")
    /\ raw_record["trans_acct_line_id"] = PyInt(0)

====
